---- MODULE Spec2Model ----
(***************************************************************************)
(* Memento backend as a state machine over the Firestore collections it    *)
(* reads and writes: the quiz engine (backend/app/quiz_system.py,          *)
(* MementoQuizSystem) over gameSessions and users, and the companion       *)
(* (backend/app/google_rag_system.py, MementoRAGSystem) over conversations *)
(* and the memory chunks. Every request runs in its own serving thread; a  *)
(* request's steps are the database and service calls it makes, and        *)
(* requests interleave between those calls.                                *)
(***************************************************************************)
EXTENDS Integers, Sequences, FiniteSets, TLC

\* ------------------------------------------------------------------ bounds
\* Quiz sessions stored in one behaviour.
MaxQuizzes == 1
\* record_quiz_answer calls that get as far as their first write, in one
\* behaviour.
MaxCalls == 2
\* The same, in the sequential specification.
MaxSeqCalls == 3

\* Serving threads running requests in parallel.
Procs == {"t1", "t2"}

\* ------------------------------------------------------- program constants
\* routes/quizzes.py valid_options: what selected_option may be.
ValidOptions == {"A", "B", "C", "D"}
\* limit(5) of the recent-quizzes query.
RecentLimit == 5
\* Python's None (question.get("correctAnswer") of a question without one).
None == "None"

\* None where an id is expected (q.get("id") of a question without one).
NoId == -1
\* An id no uuid4 call returned: a quiz or question that does not exist.
BogusId == 0

\* ------------------------------------------------------------ dictionaries
\* A Python dict / Firestore document is a function on its keys.
EmptyDict == [k \in {} |-> None]

\* None where a dict is expected (next(..., None) that found nothing).
NoDict == EmptyDict
\* Python's truth value of a dict or None: `if not question`, `if existing_answer`.
Truthy(d) == DOMAIN d # {}

\* dict.get(key, default)
Get(d, k, default) == IF k \in DOMAIN d THEN d[k] ELSE default

\* DocumentReference.update(fields) and dict item assignment: the named
\* top-level fields are replaced or added, the others kept.
Update(d, fields) ==
    [k \in DOMAIN d \cup DOMAIN fields |->
        IF k \in DOMAIN fields THEN fields[k] ELSE d[k]]

\* ------------------------------------------------ the generative model's text
\* A response line after line.strip(), by what the parser tests of it:
\* head is the marker the line starts with ("Q" for a line starting with Q,
\* "" for any other text, "BLANK" for an empty line), colon whether the line
\* holds a ':', val the text after the marker (after the first ':' for a Q
\* line), stripped.
Line(head, colon, val) == [head |-> head, colon |-> colon, val |-> val]

Opts ==
    << Line("A.", FALSE, "a"), Line("B.", FALSE, "b"),
       Line("C.", FALSE, "c"), Line("D.", FALSE, "d") >>

\* A question in the prompt's format, with its CORRECT line or without it.
QuestionLines(text, correct) ==
    << Line("Q", TRUE, text) >> \o Opts
    \o (IF correct = None THEN << >> ELSE << Line("CORRECT:", TRUE, correct) >>)
    \o << Line("EXPLANATION:", TRUE, "because"),
          Line("CATEGORY:", TRUE, "Personal") >>

\* Text without any question marker: the model answered in prose.
RespProse == << Line("", FALSE, "Sorry, I cannot help with that.") >>
\* Three questions in the prompt's format; the third has no CORRECT line.
RespThree ==
    QuestionLines("q1", "A") \o QuestionLines("q2", "B")
    \o QuestionLines("q3", None)

\* One question in the prompt's format.
RespOne == QuestionLines("q1", "B")

\* Two questions; the second has no CORRECT line.
RespTwo ==
    QuestionLines("q1", "A") \o << Line("BLANK", FALSE, "") >>
    \o QuestionLines("q2", None)

\* What the generative model returns in the specification of parallel
\* requests, and in the sequential one.
Responses == {RespProse, RespOne, RespTwo}
SeqResponses == {RespProse, RespThree}

\* str.lower() on the category texts the responses use.
Lower(s) == IF s = "Personal" THEN "personal" ELSE s

\* line[0] of an option line.
OptionLetter(head) ==
    CASE head = "A." -> "A" [] head = "B." -> "B"
      [] head = "C." -> "C" [] head = "D." -> "D"

\* The loop when a question marker keeps the fields current_question has.
ParseLineKeepingFields(st, line) ==
    LET cur == st.current IN
    IF line.head = "BLANK" THEN st
    ELSE IF line.head = "Q" /\ line.colon THEN
        [questions |->
            IF DOMAIN cur # {} /\ "text" \in DOMAIN cur
            THEN Append(st.questions, cur) ELSE st.questions,
         current |-> Update(cur, [options |-> << >>, text |-> line.val,
                                  id |-> st.uuid]),
         uuid |-> st.uuid + 1]
    ELSE IF line.head \in {"A.", "B.", "C.", "D."} THEN
        [st EXCEPT !.current =
            Update(cur, [options |->
                Append(Get(cur, "options", << >>),
                       [id |-> OptionLetter(line.head), text |-> line.val])])]
    ELSE IF line.head = "CORRECT:" THEN
        [st EXCEPT !.current = Update(cur, [correctAnswer |-> line.val])]
    ELSE IF line.head = "EXPLANATION:" THEN
        [st EXCEPT !.current = Update(cur, [explanation |-> line.val])]
    ELSE IF line.head = "CATEGORY:" THEN
        [st EXCEPT !.current = Update(cur, [category |-> Lower(line.val)])]
    ELSE st

\* One line of _parse_quiz_response's loop. st is the loop's state:
\* questions, current_question and the uuid4 counter.
ParseLine(st, line) ==
    LET cur == st.current IN
    IF line.head = "BLANK" THEN st
    ELSE IF line.head = "Q" /\ line.colon THEN
        [questions |->
            IF DOMAIN cur # {} /\ "text" \in DOMAIN cur
            THEN Append(st.questions, cur) ELSE st.questions,
         current |-> [options |-> << >>, text |-> line.val, id |-> st.uuid],
         uuid |-> st.uuid + 1]
    ELSE IF line.head \in {"A.", "B.", "C.", "D."} THEN
        [st EXCEPT !.current =
            Update(cur, [options |->
                Append(Get(cur, "options", << >>),
                       [id |-> OptionLetter(line.head), text |-> line.val])])]
    ELSE IF line.head = "CORRECT:" THEN
        [st EXCEPT !.current = Update(cur, [correctAnswer |-> line.val])]
    ELSE IF line.head = "EXPLANATION:" THEN
        [st EXCEPT !.current = Update(cur, [explanation |-> line.val])]
    ELSE IF line.head = "CATEGORY:" THEN
        [st EXCEPT !.current = Update(cur, [category |-> Lower(line.val)])]
    ELSE st

RECURSIVE ParseFrom(_, _, _)
ParseFrom(lines, i, st) ==
    IF i > Len(lines) THEN st
    ELSE ParseFrom(lines, i + 1, ParseLine(st, lines[i]))

\* _parse_quiz_response: the questions, and the uuid4 counter after them.
ParseQuizResponse(lines, uuid) ==
    LET st == ParseFrom(lines, 1,
                  [questions |-> << >>, current |-> EmptyDict, uuid |-> uuid])
        cur == st.current
    IN [questions |->
            IF DOMAIN cur # {} /\ "text" \in DOMAIN cur
            THEN Append(st.questions, cur) ELSE st.questions,
        uuid |-> st.uuid]

\* ----------------------------------------------------------------- state
VARIABLES
    gameSessions,  \* collection gameSessions: quiz id -> document
    users,         \* collection users: patient id -> document
    now,           \* the clock: the datetime.now() calls made so far
    uuid,          \* the uuid4 values handed out so far
    pc,            \* per thread: where its request stands
    loc,           \* per thread: its request's arguments and local variables
    response,      \* what the last step returned to its caller, if anything
    lastOp,        \* the operation of the request that took the last step
    callNo,        \* record_quiz_answer requests that passed their checks
    acked,         \* history: the answers whose grading result was returned
    completions,   \* history: quiz id -> completion writes performed
    conversations, \* collection conversations: patient id -> document
    trace,         \* history, per thread: the calls of its companion request
    exchanges,     \* history: the message pairs store_conversation built
    chatNo,        \* companion requests started
    input,         \* the arguments a function under study is applied to
    output         \* what it returned

\* What the quiz engine leaves alone, and what the companion does.
chatVars == << conversations, trace, exchanges, chatNo, input, output >>
quizVars == << gameSessions, callNo, acked, completions >>

vars == << gameSessions, users, now, uuid, pc, loc, response, lastOp, callNo,
           acked, completions, conversations, trace, exchanges, chatNo,
           input, output >>

\* routes/auth.py registers a profile with memoryScore 0; db/init_schema.py
\* creates one with displayName ''.
InitUsers ==
    [u \in {"p1", "p2"} |->
        IF u = "p1" THEN [displayName |-> << "Ada", "Smith" >>, memoryScore |-> 0]
        ELSE [displayName |-> << >>, memoryScore |-> 0]]

\* Patient ids a request may name: the profiles, and one that does not exist.
PatientIds == DOMAIN InitUsers \cup {"ghost"}

\* quiz_type values of the requests (routes/quizzes.py lets four through;
\* the session only stores the value).
QuizTypes == {"mixed"}

\* selected_option values of the requests: two of the four valid ones.
SelectedOptions == {"A", "B"}

NoResult == [none |-> TRUE]
Error(msg) == [error |-> msg]
IsError(r) == "error" \in DOMAIN r
IsGrading(r) == "isCorrect" \in DOMAIN r
IsQuiz(r) == "quiz_id" \in DOMAIN r

\* The collections and the serving threads before any request.
InitStore ==
    /\ gameSessions = EmptyDict
    /\ users = InitUsers
    /\ now = 0
    /\ uuid = 1
    /\ pc = [p \in Procs |-> "idle"]
    /\ loc = [p \in Procs |-> EmptyDict]
    /\ response = NoResult
    /\ lastOp = "none"
    /\ callNo = 0
    /\ acked = {}
    /\ completions = EmptyDict
    /\ conversations = EmptyDict
    /\ trace = [p \in Procs |-> << >>]
    /\ exchanges = {}
    /\ chatNo = 0
    /\ output = NoResult

Init == InitStore /\ input = EmptyDict

\* A request ends: its result is returned and its locals are gone.
Return(p, r) ==
    /\ pc' = [pc EXCEPT ![p] = "idle"]
    /\ loc' = [loc EXCEPT ![p] = EmptyDict]
    /\ response' = r

\* A request goes on to its next call with locals l; nothing is returned.
Goto(p, label, l) ==
    /\ pc' = [pc EXCEPT ![p] = label]
    /\ loc' = [loc EXCEPT ![p] = l]
    /\ response' = NoResult

\* ------------------------------------------------------------ generate_quiz
\* The session document with the status a finished quiz has.
NewQuizSessionCompleted(quiz_id, patient_id, quiz_type, created, questions, first_name) ==
    [id |-> quiz_id, patientId |-> patient_id, quizType |-> quiz_type,
     createdAt |-> created, questions |-> questions, status |-> "completed",
     patientName |-> first_name]

\* The session document generate_quiz builds.
NewQuizSession(quiz_id, patient_id, quiz_type, created, questions, first_name) ==
    [id |-> quiz_id, patientId |-> patient_id, quizType |-> quiz_type,
     createdAt |-> created, questions |-> questions, status |-> "active",
     patientName |-> first_name]

\* generate_quiz: the profile read, the model call, the parse, the session
\* written, the return. Its only write is the last call it makes and what
\* it reads no operation writes, so the request is one step. dbOk, modelOk,
\* storeOk: whether the profile read, the model call and the set() succeed;
\* text: the lines the model returns. The ids and the time of a session
\* whose set() failed are seen by nobody: they are not used up.
GenerateQuiz(patient_id, quiz_type, dbOk, modelOk, text, storeOk) ==
    /\ \E p \in Procs : pc[p] = "idle"
    /\ Cardinality(DOMAIN gameSessions) < MaxQuizzes
    /\ lastOp' = "generate_quiz"
    /\ UNCHANGED << users, pc, loc, callNo, acked, completions >>
    /\ UNCHANGED chatVars
    /\ IF ~dbOk THEN
            /\ response' = Error("db error")
            /\ UNCHANGED << now, uuid, gameSessions >>
       ELSE IF patient_id \notin DOMAIN users THEN
            /\ response' = Error("Patient not found")
            /\ UNCHANGED << now, uuid, gameSessions >>
       ELSE IF Get(users[patient_id], "displayName", << >>) = << >> THEN
            \* "".split()[0]
            /\ response' = Error("list index out of range")
            /\ UNCHANGED << now, uuid, gameSessions >>
       ELSE IF ~modelOk THEN
            /\ response' = Error("model error")
            /\ UNCHANGED << now, uuid, gameSessions >>
       ELSE
            LET parsed == ParseQuizResponse(text, uuid)
                quiz_data == parsed.questions
                quiz_id == parsed.uuid
                quiz_session ==
                    NewQuizSession(quiz_id, patient_id, quiz_type, now,
                        quiz_data, users[patient_id].displayName[1])
            IN IF ~storeOk THEN
                    /\ response' = Error("db error")
                    /\ UNCHANGED << now, uuid, gameSessions >>
               ELSE
                    /\ uuid' = quiz_id + 1
                    /\ now' = now + 1
                    /\ gameSessions' =
                        Update(gameSessions, [k \in {quiz_id} |-> quiz_session])
                    /\ response' =
                        [quiz_id |-> quiz_id, quiz_type |-> quiz_type,
                         question_count |-> Len(quiz_data),
                         questions |-> quiz_data]

\* The collaborator calls of generate_quiz: all succeed, or one fails.
GenerateOutcomes ==
    { << TRUE, TRUE, TRUE >>, << FALSE, TRUE, TRUE >>,
      << TRUE, FALSE, TRUE >>, << TRUE, TRUE, FALSE >> }

\* A generate_quiz request, on a serving thread that is free.
Generate(texts) ==
    \E patient_id \in PatientIds, quiz_type \in QuizTypes,
       ok \in GenerateOutcomes, text \in texts :
         GenerateQuiz(patient_id, quiz_type, ok[1], ok[2], text, ok[3])

\* -------------------------------------------------------- record_quiz_answer
\* The lookup without its id test: the first question, whatever id is asked.
FindQuestionFirst(questions, question_id, i) ==
    IF Len(questions) = 0 THEN NoDict ELSE questions[1]

\* next((q for q in questions if q.get("id") == question_id), None)
RECURSIVE FindQuestion(_, _, _)
FindQuestion(questions, question_id, i) ==
    IF i > Len(questions) THEN NoDict
    ELSE IF Get(questions[i], "id", NoId) = question_id THEN questions[i]
    ELSE FindQuestion(questions, question_id, i + 1)

\* The lookup testing a key the answer records do not have: never a match.
ExistingAnswerNever(answers, question_id, i) == NoDict

\* next((a for a in answers if a.get("questionId") == question_id), None)
RECURSIVE ExistingAnswer(_, _, _)
ExistingAnswer(answers, question_id, i) ==
    IF i > Len(answers) THEN NoDict
    ELSE IF Get(answers[i], "questionId", NoId) = question_id THEN answers[i]
    ELSE ExistingAnswer(answers, question_id, i + 1)

\* The comparison that lets a question without a correctAnswer pass.
IsCorrectOrMissing(selected_option, correct_option) ==
    selected_option = correct_option \/ correct_option = None

\* is_correct = selected_option == correct_option
IsCorrect(selected_option, correct_option) == selected_option = correct_option

\* The answer record record_quiz_answer appends.
AnswerRecord(question_id, selected_option, correct_option, timestamp) ==
    [questionId |-> question_id, selectedOption |-> selected_option,
     correctOption |-> correct_option,
     isCorrect |-> IsCorrect(selected_option, correct_option),
     timestamp |-> timestamp]

\* sum(1 for a in answers if a.get("isCorrect", False))
RECURSIVE CorrectCount(_, _)
CorrectCount(answers, i) ==
    IF i > Len(answers) THEN 0
    ELSE (IF Get(answers[i], "isCorrect", FALSE) THEN 1 ELSE 0)
         + CorrectCount(answers, i + 1)

\* int((correct_count / len(questions)) * 100): the float product truncated,
\* which is the integer quotient for every total below 50 (29/50 is the first
\* pair whose float product falls under the exact one).
Score(correct_count, total) == (correct_count * 100) \div total

\* The dict record_quiz_answer returns on success; explanation is
\* question.get("explanation", ""), total is len(questions).
GradingResult(is_correct, correct_option, explanation, answers, total) ==
    [isCorrect |-> is_correct, correctOption |-> correct_option,
     explanation |-> explanation,
     allQuestionsAnswered |-> (Len(answers) = total)]

\* The error results of record_quiz_answer's checks.
QuizNotFound == Error("Quiz session not found")
QuestionNotFound == Error("Question not found in this quiz")
DuplicateAnswer == Error("This question has already been answered")

\* The step that returns a grading result, with its history.
ReturnGrading(p) ==
    LET l == loc[p]
        r == GradingResult(l.is_correct, l.correct_option, l.explanation,
                           l.answers, l.total)
    IN
    /\ Return(p, r)
    /\ acked' = acked \cup
            {[quiz_id |-> l.quiz_id, answer |-> l.answers[Len(l.answers)],
              result |-> r]}

\* record_quiz_answer from quiz_ref.get() to the answer record appended to
\* the local answers list. Of the document read (quiz_data) and of the
\* question, the locals keep what the later steps use: patientId,
\* len(questions) and the explanation; answers is the list read, with the
\* new record appended.
RecordRead(p, quiz_id, question_id, selected_option, dbOk, calls) ==
    /\ pc[p] = "idle"
    /\ callNo < calls
    /\ lastOp' = "record_quiz_answer"
    /\ UNCHANGED << gameSessions, users, uuid, acked, completions >>
    /\ UNCHANGED chatVars
    /\ IF ~dbOk THEN Return(p, Error("db error")) /\ UNCHANGED << now, callNo >>
       ELSE IF quiz_id \notin DOMAIN gameSessions THEN
            Return(p, QuizNotFound) /\ UNCHANGED << now, callNo >>
       ELSE
            LET quiz_data == gameSessions[quiz_id]
                questions == Get(quiz_data, "questions", << >>)
                question == FindQuestion(questions, question_id, 1)
                answers == Get(quiz_data, "answers", << >>)
                existing_answer == ExistingAnswer(answers, question_id, 1)
            IN IF ~Truthy(question) THEN
                    Return(p, QuestionNotFound)
                    /\ UNCHANGED << now, callNo >>
               ELSE IF Truthy(existing_answer) THEN
                    Return(p, DuplicateAnswer)
                    /\ UNCHANGED << now, callNo >>
               ELSE
                    LET correct_option == Get(question, "correctAnswer", None)
                        answer_record ==
                            AnswerRecord(question_id, selected_option,
                                         correct_option, now)
                    IN now' = now + 1 /\ callNo' = callNo + 1 /\
                       Goto(p, "write_answers",
                            [quiz_id |-> quiz_id,
                             patient_id |-> Get(quiz_data, "patientId", None),
                             total |-> Len(questions),
                             explanation |-> Get(question, "explanation", ""),
                             correct_option |-> correct_option,
                             is_correct |-> answer_record.isCorrect,
                             answers |-> Append(answers, answer_record)])

\* quiz_ref.update({"answers": answers}), then the completion test and, for
\* a session not yet fully answered, the return.
RecordWriteAnswers(p, dbOk) ==
    LET l == loc[p] IN
    /\ pc[p] = "write_answers"
    /\ lastOp' = "record_quiz_answer"
    /\ UNCHANGED << users, now, uuid, callNo, completions >>
    /\ UNCHANGED chatVars
    /\ IF ~dbOk THEN
            /\ Return(p, Error("db error"))
            /\ UNCHANGED << gameSessions, acked >>
       ELSE
            /\ gameSessions' = [gameSessions EXCEPT ![l.quiz_id] =
                                    Update(@, [answers |-> l.answers])]
            /\ IF Len(l.answers) = l.total THEN
                    /\ Goto(p, "write_status",
                            Update(l, [score |->
                                Score(CorrectCount(l.answers, 1), l.total)]))
                    /\ UNCHANGED acked
               ELSE ReturnGrading(p)

\* quiz_ref.update({"status": "completed", "completedAt": ..., "score": score})
RecordWriteStatus(p, dbOk) ==
    LET l == loc[p] IN
    /\ pc[p] = "write_status"
    /\ lastOp' = "record_quiz_answer"
    /\ UNCHANGED << users, uuid, callNo >>
    /\ UNCHANGED chatVars
    /\ IF ~dbOk THEN
            /\ Return(p, Error("db error"))
            /\ UNCHANGED << gameSessions, now, completions, acked >>
       ELSE
            /\ gameSessions' = [gameSessions EXCEPT ![l.quiz_id] =
                    Update(@, [status |-> "completed", completedAt |-> now,
                               score |-> l.score])]
            /\ now' = now + 1
            /\ completions' = Update(completions,
                    [k \in {l.quiz_id} |-> Get(completions, l.quiz_id, 0) + 1])
            /\ IF l.patient_id # None
               THEN /\ Goto(p, "query_recent", l)
                    /\ UNCHANGED acked
               ELSE ReturnGrading(p)

\* The documents of the recent-quizzes query: this patient's completed
\* sessions (order_by leaves out a document without completedAt).
CompletedOf(sessions, patient_id) ==
    {q \in DOMAIN sessions :
        /\ Get(sessions[q], "patientId", None) = patient_id
        /\ Get(sessions[q], "status", None) = "completed"
        /\ "completedAt" \in DOMAIN sessions[q]}

\* order_by("completedAt", DESCENDING).limit(n): the ids, latest first.
RECURSIVE LatestFirst(_, _, _)
LatestFirst(sessions, ids, n) ==
    IF ids = {} \/ n = 0 THEN << >>
    ELSE LET latest == CHOOSE q \in ids :
                \A r \in ids :
                    \/ sessions[r].completedAt < sessions[q].completedAt
                    \/ (sessions[r].completedAt = sessions[q].completedAt /\ r <= q)
         IN << latest >> \o LatestFirst(sessions, ids \ {latest}, n - 1)

\* The scores when the query has no limit: of every completed session.
RecentScoresUnlimited(sessions, patient_id) ==
    LET done == CompletedOf(sessions, patient_id)
        ids == LatestFirst(sessions, done, Cardinality(done))
    IN [i \in 1..Len(ids) |-> Get(sessions[ids[i]], "score", 0)]

\* [q.to_dict().get("score", 0) for q in recent_quizzes]
RecentScores(sessions, patient_id) ==
    LET ids == LatestFirst(sessions, CompletedOf(sessions, patient_id), RecentLimit)
    IN [i \in 1..Len(ids) |-> Get(sessions[ids[i]], "score", 0)]

RECURSIVE Sum(_, _)
Sum(xs, i) == IF i > Len(xs) THEN 0 ELSE xs[i] + Sum(xs, i + 1)

\* int(sum(scores) / len(scores) if scores else 0): the quotient of two
\* small non-negative integers, truncated.
AvgScore(scores) ==
    IF Len(scores) > 0 THEN Sum(scores, 1) \div Len(scores) ELSE 0

\* The query when its failure puts the session back to active.
RecordQueryRecentUndoing(p, dbOk) ==
    LET patient_id == loc[p].patient_id IN
    /\ pc[p] = "query_recent"
    /\ lastOp' = "record_quiz_answer"
    /\ UNCHANGED << users, now, uuid, callNo, acked, completions >>
    /\ UNCHANGED chatVars
    /\ IF ~dbOk
       THEN /\ Return(p, Error("db error"))
            /\ gameSessions' = [gameSessions EXCEPT ![loc[p].quiz_id] =
                                    Update(@, [status |-> "active"])]
       ELSE /\ Goto(p, "write_profile",
                    Update(loc[p], [avg_score |->
                        AvgScore(RecentScores(gameSessions, patient_id))]))
            /\ UNCHANGED gameSessions

\* The recent-quizzes query and the average of its scores.
RecordQueryRecent(p, dbOk) ==
    LET patient_id == loc[p].patient_id IN
    /\ pc[p] = "query_recent"
    /\ lastOp' = "record_quiz_answer"
    /\ UNCHANGED << gameSessions, users, now, uuid, callNo, acked,
                    completions >>
    /\ UNCHANGED chatVars
    /\ IF ~dbOk THEN Return(p, Error("db error"))
       ELSE Goto(p, "write_profile",
                 Update(loc[p], [avg_score |->
                        AvgScore(RecentScores(gameSessions, patient_id))]))

\* users.document(patient_id).update({"memoryScore": int(avg_score)}), and
\* the return. update() of a document that does not exist raises.
RecordWriteProfile(p, dbOk) ==
    LET patient_id == loc[p].patient_id IN
    /\ pc[p] = "write_profile"
    /\ lastOp' = "record_quiz_answer"
    /\ UNCHANGED << gameSessions, now, uuid, callNo, completions >>
    /\ UNCHANGED chatVars
    /\ IF ~dbOk \/ patient_id \notin DOMAIN users THEN
            /\ Return(p, Error("db error"))
            /\ UNCHANGED << users, acked >>
       ELSE
            /\ users' = [users EXCEPT ![patient_id] =
                            Update(@, [memoryScore |-> loc[p].avg_score])]
            /\ ReturnGrading(p)

\* The question ids a request may name for a quiz: its questions', and one
\* that is none of them.
QuestionIds(quiz_id) ==
    {BogusId} \cup
    (IF quiz_id \in DOMAIN gameSessions
     THEN {gameSessions[quiz_id].questions[i].id :
                i \in 1..Len(gameSessions[quiz_id].questions)}
     ELSE {})

RecordAnswer(p, calls) ==
    \/ \E quiz_id \in DOMAIN gameSessions \cup {BogusId} :
       \E question_id \in QuestionIds(quiz_id) :
       \E selected_option \in SelectedOptions, dbOk \in BOOLEAN :
            RecordRead(p, quiz_id, question_id, selected_option, dbOk, calls)
    \/ \E dbOk \in BOOLEAN : RecordWriteAnswers(p, dbOk)
    \/ \E dbOk \in BOOLEAN : RecordWriteStatus(p, dbOk)
    \/ \E dbOk \in BOOLEAN : RecordQueryRecent(p, dbOk)
    \/ \E dbOk \in BOOLEAN : RecordWriteProfile(p, dbOk)

\* Requests run in parallel on the serving threads.
Next == Generate(Responses) \/ \E p \in Procs : RecordAnswer(p, MaxCalls)

Spec == Init /\ [][Next]_vars

\* One serving thread: every request runs to its end before the next starts.
NextSeq ==
    \/ pc["t1"] = "idle" /\ Generate(SeqResponses)
    \/ RecordAnswer("t1", MaxSeqCalls)

SpecSeq == Init /\ [][NextSeq]_vars

\* ------------------------------------------------------------- properties
Answers(q) == Get(gameSessions[q], "answers", << >>)
Questions(q) == Get(gameSessions[q], "questions", << >>)
Status(q) == Get(gameSessions[q], "status", None)
Completed(q) == Status(q) = "completed"

\* The session holds a question with this id / an answer to it.
HasQuestion(q, question_id) ==
    \E i \in 1..Len(Questions(q)) : Questions(q)[i].id = question_id
HasAnswer(q, question_id) ==
    \E i \in 1..Len(Answers(q)) : Answers(q)[i].questionId = question_id

\* C1: of all record_quiz_answer calls for one question of one session, at
\* most one returns a grading result.
C1_AtMostOneSuccess ==
    \A a \in acked : \A b \in acked :
        (a.quiz_id = b.quiz_id /\ a.answer.questionId = b.answer.questionId)
            => a = b

\* C2: a record_quiz_answer call whose read finds the question already
\* answered returns the already-answered error at once and writes neither a
\* session nor a profile, whatever option it submits.
C2_DuplicateRejected ==
    [][lastOp' = "record_quiz_answer" =>
       \A p \in {t \in Procs : pc[t] = "idle"} :
       \A quiz_id \in DOMAIN gameSessions :
       \A question_id \in QuestionIds(quiz_id) :
       \A selected_option \in SelectedOptions :
            ( /\ HasAnswer(quiz_id, question_id)
              /\ RecordRead(p, quiz_id, question_id, selected_option, TRUE,
                            MaxCalls) )
            => /\ response' = DuplicateAnswer
               /\ pc'[p] = "idle"
               /\ gameSessions' = gameSessions
               /\ users' = users]_vars

C2_Witness ==
    /\ response = DuplicateAnswer
    /\ \E q \in DOMAIN gameSessions : Len(Answers(q)) > 0

\* C3: no two entries of a session's persisted answers list have the same
\* questionId.
C3_NoDuplicateAnswers ==
    \A q \in DOMAIN gameSessions :
        \A i \in 1..Len(Answers(q)) : \A j \in 1..Len(Answers(q)) :
            Answers(q)[i].questionId = Answers(q)[j].questionId => i = j

C3_Witness ==
    \E q \in DOMAIN gameSessions :
        /\ Len(Answers(q)) = 2
        /\ Cardinality({e \in acked : e.quiz_id = q}) >= 2

\* C4: a persisted session is completed if and only if it has as many
\* answers as questions.
C4_CompletedIffAllAnswered ==
    \A q \in DOMAIN gameSessions :
        Completed(q) <=> (Len(Answers(q)) = Len(Questions(q)))

\* C5: once a session is completed no step changes its document, and the
\* completion write is made at most once per session.
C5_CompletedIsTerminal ==
    [][\A q \in DOMAIN gameSessions :
            /\ Completed(q) => gameSessions'[q] = gameSessions[q]
            /\ Get(completions', q, 0) <= 1]_vars

\* 100 * correct / total rounded to the nearest integer.
Rounded(correct, total) == (200 * correct + total) \div (2 * total)

\* C6: a completed session's score is 100 * correctCount / totalQuestions
\* rounded to the nearest integer, within 0..100, correctCount being the
\* persisted answers marked correct; an active session has no score.
C6_ScoreIsRounded ==
    \A q \in DOMAIN gameSessions :
        IF Completed(q)
        THEN /\ "score" \in DOMAIN gameSessions[q]
             /\ gameSessions[q].score \in 0..100
             /\ gameSessions[q].score =
                    Rounded(CorrectCount(Answers(q), 1), Len(Questions(q)))
        ELSE "score" \notin DOMAIN gameSessions[q]

\* C7: an answer whose grading result was returned stays in the session's
\* persisted answers list.
C7_AckedAnswersPersist ==
    \A e \in acked :
        \E i \in 1..Len(Answers(e.quiz_id)) : Answers(e.quiz_id)[i] = e.answer

\* C8: a record_quiz_answer call whose read succeeds and finds no such
\* session, or no such question in the session, returns the not-found error
\* at once and writes neither a session nor a profile.
C8_NotFoundWritesNothing ==
    [][lastOp' = "record_quiz_answer" =>
       \A p \in {t \in Procs : pc[t] = "idle"} :
       \A quiz_id \in DOMAIN gameSessions \cup {BogusId} :
       \A question_id \in QuestionIds(quiz_id) :
       \A selected_option \in SelectedOptions :
            ( /\ quiz_id \in DOMAIN gameSessions
                    => ~HasQuestion(quiz_id, question_id)
              /\ RecordRead(p, quiz_id, question_id, selected_option, TRUE,
                            MaxCalls) )
            => /\ response' = (IF quiz_id \in DOMAIN gameSessions
                               THEN QuestionNotFound ELSE QuizNotFound)
               /\ pc'[p] = "idle"
               /\ gameSessions' = gameSessions
               /\ users' = users]_vars

C8_Witness ==
    /\ response = QuestionNotFound
    /\ \E q \in DOMAIN gameSessions : Len(Questions(q)) > 0

\* The question of session q an answer record is about.
QuestionOf(q, a) ==
    CHOOSE x \in {Questions(q)[i] : i \in 1..Len(Questions(q))} :
        x.id = a.questionId

\* selectedOption is the question's correctAnswer, which it has.
AnsweredRight(q, a) ==
    /\ "correctAnswer" \in DOMAIN QuestionOf(q, a)
    /\ QuestionOf(q, a).correctAnswer = a.selectedOption

\* C9: every recorded answer, and every grading result returned, is marked
\* correct exactly when the selected option is the question's correctAnswer;
\* for a question without a correctAnswer it is marked incorrect.
C9_GradedAgainstCorrectAnswer ==
    /\ \A q \in DOMAIN gameSessions : \A i \in 1..Len(Answers(q)) :
            /\ HasQuestion(q, Answers(q)[i].questionId)
            /\ Answers(q)[i].isCorrect <=> AnsweredRight(q, Answers(q)[i])
    /\ \A e \in acked :
            /\ e.result.isCorrect <=> AnsweredRight(e.quiz_id, e.answer)
            /\ e.answer.isCorrect = e.result.isCorrect

C9_Witness ==
    /\ \E e \in acked :
            /\ "correctAnswer" \notin DOMAIN QuestionOf(e.quiz_id, e.answer)
            /\ ~e.result.isCorrect
            /\ HasAnswer(e.quiz_id, e.answer.questionId)
    /\ \E e \in acked : e.result.isCorrect

MaxEntities == 2

\* -------------------------------------------------------- analyze_sentiment
\* document_sentiment.score is a float in [-1, 1]; the model counts it in
\* hundredths, so the thresholds 0.25 and -0.25 are 25 and -25.
PositiveThreshold == 25
NegativeThreshold == -25

\* Scores the language service returns: the ends of the range, both
\* thresholds and their neighbours, and values well inside each band.
SentimentScores == {-100, -50, -26, -25, -24, -10, 0, 10, 24, 25, 26, 50, 100}

\* language_v1.Entity.Type names of the entities it returns.
EntityTypes == {"PERSON", "LOCATION", "ADDRESS", "ORGANIZATION", "EVENT"}

\* An entity of the response: here its name says its type.
Entity(type) == [name |-> type, type_ |-> type]

\* The entity lists of up to n entities.
RECURSIVE EntityLists(_)
EntityLists(n) ==
    IF n = 0 THEN {<< >>}
    ELSE LET shorter == EntityLists(n - 1) IN
         shorter \cup {Append(es, Entity(t)) : es \in shorter, t \in EntityTypes}

\* The names of the entities whose type is one of types, in order.
RECURSIVE NamesOfType(_, _, _)
NamesOfType(entities, types, i) ==
    IF i > Len(entities) THEN << >>
    ELSE IF entities[i].type_ \in types
         THEN << entities[i].name >> \o NamesOfType(entities, types, i + 1)
         ELSE NamesOfType(entities, types, i + 1)

\* The loop that sorts the entities into people, locations, organizations
\* and other.
ExtractedEntities(entities) ==
    [people |-> NamesOfType(entities, {"PERSON"}, 1),
     locations |-> NamesOfType(entities, {"LOCATION", "ADDRESS"}, 1),
     organizations |-> NamesOfType(entities, {"ORGANIZATION"}, 1),
     other |-> NamesOfType(entities,
                  EntityTypes \ {"PERSON", "LOCATION", "ADDRESS", "ORGANIZATION"}, 1)]

\* The category when a mention of a person decides before the score does.
SentimentCategoryPeopleFirst(sentiment_score, people) ==
    IF Len(people) > 0 THEN "family"
    ELSE IF sentiment_score > PositiveThreshold THEN "positive"
    ELSE IF sentiment_score < NegativeThreshold THEN "negative"
    ELSE "neutral"

\* sentiment_category of analyze_sentiment.
SentimentCategory(sentiment_score, people) ==
    IF sentiment_score > PositiveThreshold THEN "positive"
    ELSE IF sentiment_score < NegativeThreshold THEN "negative"
    ELSE IF Len(people) > 0 THEN "family"
    ELSE "neutral"

\* What analyze_sentiment returns for the service's two responses.
AnalyzeSentiment(sentiment, entities) ==
    LET extracted_entities == ExtractedEntities(entities) IN
    [score |-> sentiment.score,
     magnitude |-> sentiment.magnitude,
     category |-> SentimentCategory(sentiment.score, extracted_entities.people),
     entities |-> extracted_entities]

\* The responses of the language service analyze_sentiment is studied on.
SentimentInputs ==
    {[sentiment |-> [score |-> s, magnitude |-> 1], entities |-> es] :
        s \in SentimentScores, es \in EntityLists(MaxEntities)}

InitSentiment == InitStore /\ input \in SentimentInputs

\* analyze_sentiment applied to the responses drawn.
AnalyzeSentimentStep ==
    /\ output = NoResult
    /\ output' = AnalyzeSentiment(input.sentiment, input.entities)
    /\ UNCHANGED << gameSessions, users, now, uuid, pc, loc, response, lastOp,
                    callNo, acked, completions, conversations, trace,
                    exchanges, chatNo, input >>

NextSentiment == AnalyzeSentimentStep
SpecSentiment == InitSentiment /\ [][NextSentiment]_vars

\* Whether the entities of the service's response name a person.
MentionsPerson(entities) ==
    \E i \in 1..Len(entities) : entities[i].type_ = "PERSON"

\* C18: the category is positive iff the score is above 0.25, negative iff
\* it is below -0.25, family iff the score is within [-0.25, 0.25] and a
\* person entity was extracted, neutral iff it is within and none was; in
\* particular a person with score -0.1 gives family, with 0.5 positive.
C18_SentimentCategory ==
    output # NoResult =>
        LET s == input.sentiment.score
            person == MentionsPerson(input.entities)
            within == s >= -25 /\ s <= 25
            c == output.category
        IN /\ c \in {"positive", "negative", "family", "neutral"}
           /\ (c = "positive") <=> (s > 25)
           /\ (c = "negative") <=> (s < -25)
           /\ (c = "family") <=> (within /\ person)
           /\ (c = "neutral") <=> (within /\ ~person)
           /\ (person /\ s = -10) => c = "family"
           /\ (person /\ s = 50) => c = "positive"

C18_Witness ==
    /\ output # NoResult
    /\ output.category = "positive"
    /\ MentionsPerson(input.entities)

\* -------------------------------------------- retrieve_memories, the fallback
\* Chunks of one patient's memory store, at most.
MaxChunks == 3
\* The largest limit a search is asked for.
MaxLimit == 2

\* An embedding is a sequence of numbers; below, every one has an integer
\* Euclidean norm (5), so that a cosine similarity is a whole number of
\* hundredths.
Vec2(x, y) == << x, y >>
\* What the embedding model returns for a query text.
QueryEmbeddings == {Vec2(3, 4), Vec2(5, 0)}

\* The documents of a chunks collection: with a vector of the model's
\* dimension, with a vector stored under an older model (another
\* dimension) and a summary or none, without a vector, with an empty one
\* (db/init_schema.py's template), with a vector of zeros.
ChunkDocs ==
    {[id |-> "a", summary |-> "sa", vector |-> Vec2(3, 4)],
     [id |-> "b", summary |-> "sb", vector |-> Vec2(4, 3)],
     [id |-> "c", summary |-> "sc", vector |-> Vec2(-3, 4)],
     [id |-> "d", summary |-> "sd", vector |-> << 5 >>],
     [id |-> "e", vector |-> << 5 >>],
     [id |-> "f", summary |-> "sf"],
     [id |-> "g", summary |-> "sg", vector |-> << >>],
     [id |-> "z", summary |-> "sz", vector |-> Vec2(0, 0)]}

\* list(memories_ref.stream()): the documents of a collection in some
\* order, each once.
RECURSIVE Streams(_)
Streams(n) ==
    IF n = 0 THEN {<< >>}
    ELSE LET shorter == Streams(n - 1) IN
         shorter \cup
         UNION {{Append(ms, d) :
                    d \in ChunkDocs \ {ms[i] : i \in 1..Len(ms)}} :
                ms \in shorter}

\* generate_embedding(text): the values, or the exception it raised.
Embedded(values) == [ok |-> TRUE, values |-> values]
EmbeddingFailed == [ok |-> FALSE]
\* What the embedding model does for the summary of a chunk, within one
\* search: the same for every summary.
SummaryEmbeddings == {Embedded(Vec2(4, 3)), EmbeddingFailed}

\* np.dot of two vectors of one length.
RECURSIVE Dot(_, _, _)
Dot(u, v, i) == IF i > Len(u) THEN 0 ELSE u[i] * v[i] + Dot(u, v, i + 1)

\* np.linalg.norm, for the vectors above.
Norm(v) == CHOOSE n \in 0..100 : n * n = Dot(v, v, 1)

\* numpy's nan, the quotient 0.0 / 0.0 of two float64: no similarity in
\* hundredths has this value.
NaN == 999

\* The cosine similarity of two vectors of one length, in hundredths: the
\* division is made whatever the norms are, and numpy divides 0.0 by 0.0
\* to nan without raising.
Cosine(memory_vector, query_vector) ==
    IF Norm(memory_vector) * Norm(query_vector) = 0 THEN NaN
    ELSE (100 * Dot(memory_vector, query_vector, 1))
            \div (Norm(memory_vector) * Norm(query_vector))

Skipped == [skip |-> TRUE]
Scored(similarity) == [skip |-> FALSE, similarity |-> similarity]

\* One pass of the loop of MementoQuizSystem.retrieve_memories: np.dot
\* raises ValueError for vectors of different lengths, and the chunk is
\* skipped.
QuizScoreOf(memory, query_embedding) ==
    LET memory_vector == Get(memory, "vector", << >>) IN
    IF Len(memory_vector) = 0 THEN Skipped
    ELSE IF Len(memory_vector) # Len(query_embedding) THEN Skipped
    ELSE Scored(Cosine(memory_vector, query_embedding))

\* The pass when a stored vector of another dimension is compared over the
\* components both vectors have.
ScoreOfStaleCompared(memory, query_embedding, embedding) ==
    LET memory_vector == Get(memory, "vector", << >>) IN
    IF Len(memory_vector) = 0 THEN Skipped
    ELSE IF Len(memory_vector) # Len(query_embedding)
              /\ ~("summary" \in DOMAIN memory /\ embedding.ok)
         THEN Scored(100)
    ELSE IF Len(memory_vector) # Len(query_embedding)
         THEN Scored(Cosine(embedding.values, query_embedding))
    ELSE Scored(Cosine(memory_vector, query_embedding))

\* One pass of the loop of MementoRAGSystem.retrieve_memories: the chunk
\* is skipped, or scored with its vector or its re-embedded summary.
ScoreOf(memory, query_embedding, embedding) ==
    LET memory_vector == Get(memory, "vector", << >>) IN
    IF Len(memory_vector) = 0 THEN Skipped
    ELSE IF Len(memory_vector) # Len(query_embedding)
         THEN IF "summary" \in DOMAIN memory
              THEN IF embedding.ok
                   THEN IF Len(embedding.values) # Len(query_embedding)
                        THEN Skipped
                        ELSE Scored(Cosine(embedding.values, query_embedding))
                   ELSE Skipped
              ELSE Skipped
    ELSE Scored(Cosine(memory_vector, query_embedding))

\* memory_scores after the loop: the chunks scored, in stream order, each
\* with its similarity.
RECURSIVE MemoryScores(_, _, _, _, _)
MemoryScores(memories, query_embedding, embedding, reembeds, i) ==
    IF i > Len(memories) THEN << >>
    ELSE LET memory == memories[i]
             sc == IF reembeds THEN ScoreOf(memory, query_embedding, embedding)
                   ELSE QuizScoreOf(memory, query_embedding)
             rest == MemoryScores(memories, query_embedding, embedding,
                                  reembeds, i + 1)
         IN IF sc.skip THEN rest
            ELSE << Update(memory, [similarity |-> sc.similarity]) >> \o rest

\* The sort when the key is taken in increasing order.
RECURSIVE SortIncreasing(_, _)
SortIncreasing(scores, n) ==
    IF n = 0 THEN << >>
    ELSE LET sorted == SortIncreasing(scores, n - 1)
             x == scores[n]
             before == Cardinality({j \in 1..Len(sorted) :
                                        sorted[j].similarity <= x.similarity})
         IN SubSeq(sorted, 1, before) \o << x >>
                \o SubSeq(sorted, before + 1, Len(sorted))

\* memory_scores.sort(key=similarity, reverse=True) of the first n scores: a
\* stable sort, greatest similarity first.
RECURSIVE SortBySimilarity(_, _)
SortBySimilarity(scores, n) ==
    IF n = 0 THEN << >>
    ELSE LET sorted == SortBySimilarity(scores, n - 1)
             x == scores[n]
             before == Cardinality({j \in 1..Len(sorted) :
                                        sorted[j].similarity >= x.similarity})
         IN SubSeq(sorted, 1, before) \o << x >>
                \o SubSeq(sorted, before + 1, Len(sorted))

\* memory_scores[:limit], for a limit >= 0.
Take(xs, limit) == SubSeq(xs, 1, IF limit < Len(xs) THEN limit ELSE Len(xs))

\* The fallback of retrieve_memories, from the streamed chunks on: of
\* MementoRAGSystem when reembeds, of MementoQuizSystem otherwise.
FallbackSearch(memories, query_embedding, limit, embedding, reembeds) ==
    LET memory_scores == MemoryScores(memories, query_embedding, embedding,
                                      reembeds, 1)
    IN Take(SortBySimilarity(memory_scores, Len(memory_scores)), limit)

\* The orders of a list.
Orders(xs) ==
    {[i \in 1..Len(xs) |-> xs[f[i]]] :
        f \in {g \in [1..Len(xs) -> 1..Len(xs)] :
                    \A i, j \in 1..Len(xs) : g[i] = g[j] => i = j}}

\* What memory_scores.sort(...) can leave in the list. Every comparison
\* with nan is false, so that with a nan among the keys the order the sort
\* leaves depends on the sorting algorithm and on the order of the stream:
\* any order is taken as possible.
SortOutcomes(scores) ==
    IF \E i \in 1..Len(scores) : scores[i].similarity = NaN
    THEN Orders(scores)
    ELSE {SortBySimilarity(scores, Len(scores))}

\* What the fallback of retrieve_memories can return.
FallbackSearches(memories, query_embedding, limit, embedding, reembeds) ==
    LET memory_scores == MemoryScores(memories, query_embedding, embedding,
                                      reembeds, 1)
    IN {Take(sorted, limit) : sorted \in SortOutcomes(memory_scores)}

\* The searches the fallback is studied on: reembeds tells the search of
\* MementoRAGSystem from that of MementoQuizSystem.
SearchInputs ==
    {[memories |-> ms, query_embedding |-> q, limit |-> k, embedding |-> e,
      reembeds |-> b] :
        ms \in Streams(MaxChunks), q \in QueryEmbeddings, k \in 0..MaxLimit,
        e \in SummaryEmbeddings, b \in BOOLEAN}

InitSearch == InitStore /\ input \in SearchInputs

\* The fallback applied to the search drawn.
FallbackSearchStep ==
    /\ output = NoResult
    /\ \E memories \in FallbackSearches(input.memories, input.query_embedding,
                                         input.limit, input.embedding,
                                         input.reembeds) :
            output' = [memories |-> memories]
    /\ UNCHANGED << gameSessions, users, now, uuid, pc, loc, response, lastOp,
                    callNo, acked, completions, conversations, trace,
                    exchanges, chatNo, input >>

NextSearch == FallbackSearchStep
SpecSearch == InitSearch /\ [][NextSearch]_vars

\* A result of the search without the similarity the search added.
Candidate(memory) == [k \in DOMAIN memory \ {"similarity"} |-> memory[k]]

\* x >= y for two similarities: false when either is nan.
NotBelow(x, y) == x # NaN /\ y # NaN /\ x >= y

\* The chunks streamed.
Candidates == {input.memories[i] : i \in 1..Len(input.memories)}

\* C19: the fallback search returns at most min(k, |C|) results, by
\* non-increasing similarity, each one a candidate of C, and the empty
\* sequence for an empty C.
C19_SearchResult ==
    output # NoResult =>
        LET r == output.memories IN
        /\ Len(r) <= input.limit
        /\ Len(r) <= Len(input.memories)
        /\ \A i \in 1..(Len(r) - 1) : NotBelow(r[i].similarity, r[i + 1].similarity)
        /\ \A i \in 1..Len(r) : Candidate(r[i]) \in Candidates
        /\ Len(input.memories) = 0 => r = << >>

C19_Witness ==
    /\ output # NoResult
    /\ Len(input.memories) = 3
    /\ Len(output.memories) = 2
    /\ output.memories[1].id = input.memories[3].id
    /\ NotBelow(output.memories[1].similarity, output.memories[2].similarity)
    /\ output.memories[1].similarity # output.memories[2].similarity

\* Whether a chunk has a vector, and whether its vector is of another
\* dimension than the query's.
HasVector(memory) == "vector" \in DOMAIN memory /\ Len(memory.vector) > 0
Stale(memory) == HasVector(memory) /\ Len(memory.vector) # Len(input.query_embedding)

\* The chunks the claim lets into the results of a search that re-embeds.
Comparable(memory) ==
    /\ HasVector(memory)
    /\ Stale(memory) => ("summary" \in DOMAIN memory /\ input.embedding.ok)

\* C20: a chunk without a vector is never in the results; a chunk whose
\* vector has another dimension than the query's is in the results only if
\* its summary was re-embedded in that search (never in the quiz engine's
\* search, which does not re-embed); the chunks left out for that take no
\* other chunk with them: the search returns the other chunks, up to the
\* limit.
C20_StaleChunks ==
    output # NoResult =>
        LET r == output.memories IN
        /\ input.reembeds =>
            /\ \A i \in 1..Len(r) : Comparable(Candidate(r[i]))
            /\ Len(r) =
                    LET n == Cardinality({m \in Candidates : Comparable(m)})
                    IN IF input.limit < n THEN input.limit ELSE n
        /\ ~input.reembeds =>
            /\ \A i \in 1..Len(r) :
                    LET m == Candidate(r[i])
                    IN HasVector(m) /\ ~Stale(m)
            /\ Len(r) =
                    LET n == Cardinality({m \in Candidates :
                                            HasVector(m) /\ ~Stale(m)})
                    IN IF input.limit < n THEN input.limit ELSE n

C20_Witness ==
    /\ output # NoResult
    /\ input.reembeds
    /\ ~input.embedding.ok
    /\ \E m \in Candidates : Stale(m) /\ "summary" \in DOMAIN m
    /\ \E m \in Candidates : ~HasVector(m)
    /\ Len(output.memories) = 1

\* Whether a chunk's vector has the query's dimension and norm 0.
ZeroNorm(memory) ==
    /\ HasVector(memory)
    /\ ~Stale(memory)
    /\ Norm(memory.vector) = 0

\* C22: in the fallback search a stored vector of norm 0 gets the
\* similarity 0, no undefined value, and the results with other vectors
\* stay in non-increasing order of similarity.
C22_ZeroNormScoresZero ==
    output # NoResult =>
        LET r == output.memories IN
        /\ \A i \in 1..Len(r) :
                ZeroNorm(Candidate(r[i])) => r[i].similarity = 0
        /\ \A i, j \in 1..Len(r) :
                (i < j /\ ~ZeroNorm(Candidate(r[i])) /\ ~ZeroNorm(Candidate(r[j])))
                    => NotBelow(r[i].similarity, r[j].similarity)

\* ------------------------------------- process_text_message, process_audio_message
\* Companion requests started in one behaviour.
MaxChats == 2
\* limit of retrieve_memories when process_text_message calls it.
DefaultLimit == 5

\* An entry of a request's trace: a call to a collaborator and whether it
\* returned (ok) or raised.
Call(name, ok) == [call |-> name, ok |-> ok]
\* The call to the speech service, with the transcript it returned.
SpeechCall(ok, transcript) ==
    [call |-> "speech.recognize", ok |-> ok, transcript |-> transcript]
\* The vector search found missing in the installed client (ImportError or
\* AttributeError), which sends retrieve_memories to its fallback.
SearchUnavailable ==
    [call |-> "firestore.find_nearest", ok |-> FALSE, unavailable |-> TRUE]
\* The last entry: the request returned result.
Returned(result) == [call |-> "return", ok |-> ~IsError(result), result |-> result]

\* speech_to_text(audio_content): a transcript, possibly empty, or an
\* exception.
SpeechOutcomes ==
    {[ok |-> FALSE, transcript |-> ""], [ok |-> TRUE, transcript |-> ""],
     [ok |-> TRUE, transcript |-> "hello"]}

\* The text messages of the requests.
Messages == {"hi"}

\* What the language service answers for a message.
ChatSentiments ==
    {[sentiment |-> [score |-> -10, magnitude |-> 1],
      entities |-> << Entity("PERSON") >>],
     [sentiment |-> [score |-> 50, magnitude |-> 1], entities |-> << >>]}

\* The chunks collection of every patient: a chunk stored under an older
\* embedding model, and a current one.
PatientChunks ==
    << [id |-> "d", summary |-> "sd", vector |-> << 5 >>],
       [id |-> "a", summary |-> "sa", vector |-> Vec2(3, 4)] >>

\* What find_nearest(...).stream() yields, with the similarity
\* 1.0 - doc.distance in hundredths.
NearestMemories ==
    << [id |-> "a", summary |-> "sa", vector |-> Vec2(3, 4), similarity |-> 100] >>

\* How the calls of retrieve_memories turn out: the query embedding; the
\* vector search (done, raising, or not available in the installed client:
\* ImportError or AttributeError); in the fallback the
\* stream of the chunks and the embedding of a stale chunk's summary.
RetrieveOutcomes ==
    {[embed |-> FALSE, search |-> "ok", stream |-> TRUE, summary |-> EmbeddingFailed],
     [embed |-> TRUE, search |-> "ok", stream |-> TRUE, summary |-> EmbeddingFailed],
     [embed |-> TRUE, search |-> "error", stream |-> TRUE, summary |-> EmbeddingFailed],
     [embed |-> TRUE, search |-> "unavailable", stream |-> FALSE, summary |-> EmbeddingFailed],
     [embed |-> TRUE, search |-> "unavailable", stream |-> TRUE, summary |-> EmbeddingFailed],
     [embed |-> TRUE, search |-> "unavailable", stream |-> TRUE,
      summary |-> Embedded(Vec2(4, 3))]}

\* The calls retrieve_memories makes under outcome o, in order.
RECURSIVE ReembedCalls(_, _, _, _)
ReembedCalls(memories, query_embedding, embedding, i) ==
    IF i > Len(memories) THEN << >>
    ELSE LET v == Get(memories[i], "vector", << >>)
             rest == ReembedCalls(memories, query_embedding, embedding, i + 1)
         IN IF Len(v) > 0 /\ Len(v) # Len(query_embedding)
                 /\ "summary" \in DOMAIN memories[i]
            THEN << Call("embedding.get_embeddings", embedding.ok) >> \o rest
            ELSE rest

RetrieveCalls(o, query_embedding) ==
    << Call("embedding.get_embeddings", o.embed) >> \o
    (IF ~o.embed THEN << >>
     ELSE IF o.search = "ok" THEN << Call("firestore.find_nearest", TRUE) >>
     ELSE IF o.search = "error" THEN << Call("firestore.find_nearest", FALSE) >>
     ELSE << SearchUnavailable, Call("chunks.stream", o.stream) >> \o
          (IF o.stream
           THEN ReembedCalls(PatientChunks, query_embedding, o.summary, 1)
           ELSE << >>))

\* retrieve_memories swallowing every exception.
RetrieveRaisesNever(o) == FALSE

\* Whether retrieve_memories raises under outcome o, and what it returns
\* otherwise.
RetrieveRaises(o) ==
    \/ ~o.embed
    \/ o.search = "error"
    \/ o.search = "unavailable" /\ ~o.stream

RetrieveMemories(o, query_embedding, limit) ==
    IF o.search = "ok" THEN NearestMemories
    ELSE FallbackSearch(PatientChunks, query_embedding, limit, o.summary, TRUE)

\* The memories of the result: summary and similarity of each.
RECURSIVE MemorySummaries(_, _)
MemorySummaries(memories, i) ==
    IF i > Len(memories) THEN << >>
    ELSE << [summary |-> Get(memories[i], "summary", ""),
             similarity |-> Get(memories[i], "similarity", 0)] >>
         \o MemorySummaries(memories, i + 1)

\* user_message_obj and ai_message_obj of store_conversation.
UserMessage(id, content, timestamp, sentiment_data) ==
    [id |-> id, sender |-> "patient", content |-> content,
     timestamp |-> timestamp,
     sentiment |-> Get(sentiment_data, "category", "neutral"),
     sentimentScore |-> Get(sentiment_data, "score", 0),
     entities |-> Get(sentiment_data, "entities", EmptyDict)]
AiMessage(id, content, timestamp) ==
    [id |-> id, sender |-> "ai", content |-> content, timestamp |-> timestamp]

\* The list when only the patient's message is appended.
AppendExchangeUserOnly(messages, user_message_obj, ai_message_obj) ==
    Append(messages, user_message_obj)

\* messages.append(user_message_obj); messages.append(ai_message_obj)
AppendExchange(messages, user_message_obj, ai_message_obj) ==
    Append(Append(messages, user_message_obj), ai_message_obj)

\* The document when the update is applied although the call raised.
StoredWritten(ok, doc, messages) == Update(doc, [messages |-> messages])

\* The conversation document after conv_ref.update({"messages": messages}).
Stored(ok, doc, messages) ==
    IF ok THEN Update(doc, [messages |-> messages]) ELSE doc

\* `not message` never true.
IsEmptyTranscriptNever(message) == FALSE

\* `not message` of process_audio_message.
IsEmptyTranscript(message) == message = ""

\* The result without the transcript.
ChatResultNoTranscript(audio, result, message) == result

\* What the request returns for process_text_message's result:
\* process_audio_message sets result["message"] first.
ChatResult(audio, result, message) ==
    IF audio THEN Update(result, [message |-> message]) ELSE result

TranscriptionFailed == Error("Could not understand the audio message")
PatientNotFound == Error("Patient not found")

\* Thread p's request makes calls (trace entries) and goes on with locals l.
ChatGoto(p, label, l, calls) ==
    /\ Goto(p, label, l)
    /\ trace' = [trace EXCEPT ![p] = @ \o calls]

\* Thread p's request makes calls and process_text_message returns result.
ChatReturn(p, result, calls) ==
    LET r == ChatResult(loc[p].audio, result, loc[p].message) IN
    /\ Return(p, r)
    /\ trace' = [trace EXCEPT ![p] = @ \o calls \o << Returned(r) >>]

\* process_text_message up to patient_info, for the request with locals l
\* whose trace so far is tr.
GetPatient(p, l, tr, dbOk) ==
    LET ret(result) ==
            LET r == ChatResult(l.audio, result, l.message) IN
            /\ Return(p, r)
            /\ trace' = [trace EXCEPT ![p] =
                            tr \o << Call("users.get", dbOk), Returned(r) >>]
    IN
    IF ~dbOk THEN ret(Error("db error"))
    ELSE IF l.patient_id \notin DOMAIN users THEN ret(PatientNotFound)
    ELSE IF Len(Get(users[l.patient_id], "displayName", << >>)) = 0
         THEN ret(Error("list index out of range"))
    ELSE /\ Goto(p, "sentiment", l)
         /\ trace' = [trace EXCEPT ![p] = tr \o << Call("users.get", TRUE) >>]

\* A text request arrives: process_text_message reads the patient.
ProcessTextMessage(p, patient_id, message, dbOk) ==
    /\ pc[p] = "idle"
    /\ chatNo < MaxChats
    /\ chatNo' = chatNo + 1
    /\ lastOp' = "process_text_message"
    /\ GetPatient(p, [audio |-> FALSE, patient_id |-> patient_id,
                      message |-> message], << >>, dbOk)
    /\ UNCHANGED << users, now, uuid, conversations, exchanges, input, output >>
    /\ UNCHANGED quizVars

\* An audio request arrives: process_audio_message transcribes it.
ProcessAudioMessage(p, patient_id, stt) ==
    /\ pc[p] = "idle"
    /\ chatNo < MaxChats
    /\ chatNo' = chatNo + 1
    /\ lastOp' = "process_audio_message"
    /\ UNCHANGED << users, now, uuid, conversations, exchanges, input, output >>
    /\ UNCHANGED quizVars
    /\ IF ~stt.ok
       THEN /\ Return(p, Error("speech error"))
            /\ trace' = [trace EXCEPT ![p] =
                            << SpeechCall(FALSE, ""),
                               Returned(Error("speech error")) >>]
       ELSE IF IsEmptyTranscript(stt.transcript)
       THEN /\ Return(p, TranscriptionFailed)
            /\ trace' = [trace EXCEPT ![p] =
                            << SpeechCall(TRUE, stt.transcript),
                               Returned(TranscriptionFailed) >>]
       ELSE /\ Goto(p, "users_get", [audio |-> TRUE, patient_id |-> patient_id,
                                     message |-> stt.transcript])
            /\ trace' = [trace EXCEPT ![p] =
                            << SpeechCall(TRUE, stt.transcript) >>]

\* process_audio_message calls process_text_message, which reads the patient.
AudioGetPatient(p, dbOk) ==
    /\ pc[p] = "users_get"
    /\ lastOp' = "process_audio_message"
    /\ GetPatient(p, loc[p], trace[p], dbOk)
    /\ UNCHANGED << users, now, uuid, conversations, exchanges, chatNo, input,
                    output >>
    /\ UNCHANGED quizVars

\* analyze_sentiment: the two calls to the language service.
ChatSentiment(p, fails, answer) ==
    /\ pc[p] = "sentiment"
    /\ lastOp' = "process_text_message"
    /\ UNCHANGED << users, now, uuid, conversations, exchanges, chatNo, input,
                    output >>
    /\ UNCHANGED quizVars
    /\ IF fails = "sentiment"
       THEN ChatReturn(p, Error("language error"),
                       << Call("language.analyze_sentiment", FALSE) >>)
       ELSE IF fails = "entities"
       THEN ChatReturn(p, Error("language error"),
                       << Call("language.analyze_sentiment", TRUE),
                          Call("language.analyze_entities", FALSE) >>)
       ELSE ChatGoto(p, "retrieve",
                     Update(loc[p], [sentiment_data |->
                        AnalyzeSentiment(answer.sentiment, answer.entities)]),
                     << Call("language.analyze_sentiment", TRUE),
                        Call("language.analyze_entities", TRUE) >>)

\* retrieve_memories(patient_id, message).
ChatRetrieve(p, o, query_embedding) ==
    /\ pc[p] = "retrieve"
    /\ lastOp' = "process_text_message"
    /\ UNCHANGED << users, now, uuid, conversations, exchanges, chatNo, input,
                    output >>
    /\ UNCHANGED quizVars
    /\ IF RetrieveRaises(o)
       THEN ChatReturn(p, Error("retrieval error"),
                       RetrieveCalls(o, query_embedding))
       ELSE ChatGoto(p, "generate",
                     Update(loc[p], [memories |->
                        RetrieveMemories(o, query_embedding, DefaultLimit)]),
                     RetrieveCalls(o, query_embedding))

\* generate_response: the call to the generative model.
ChatGenerate(p, ok) ==
    /\ pc[p] = "generate"
    /\ lastOp' = "process_text_message"
    /\ UNCHANGED << users, now, uuid, conversations, exchanges, chatNo, input,
                    output >>
    /\ UNCHANGED quizVars
    /\ IF ~ok
       THEN ChatReturn(p, Error("generation error"),
                       << Call("gemini.generate_content", FALSE) >>)
       ELSE ChatGoto(p, "tts", Update(loc[p], [ai_response |-> "reply"]),
                     << Call("gemini.generate_content", TRUE) >>)

\* text_to_speech(ai_response).
ChatSpeech(p, ok) ==
    /\ pc[p] = "tts"
    /\ lastOp' = "process_text_message"
    /\ UNCHANGED << users, now, uuid, conversations, exchanges, chatNo, input,
                    output >>
    /\ UNCHANGED quizVars
    /\ IF ~ok
       THEN ChatReturn(p, Error("speech error"),
                       << Call("tts.synthesize_speech", FALSE) >>)
       ELSE ChatGoto(p, "conv_get", loc[p],
                     << Call("tts.synthesize_speech", TRUE) >>)

\* store_conversation from current_time to the two appends, on the list
\* messages: the locals before conv_ref.update.
WithExchange(p, messages) ==
    LET l == loc[p]
        user_message_obj == UserMessage(uuid, l.message, now, l.sentiment_data)
        ai_message_obj == AiMessage(uuid + 1, l.ai_response, now)
    IN Update(l, [user_msg_id |-> uuid, ai_msg_id |-> uuid + 1,
                  messages |-> AppendExchange(messages, user_message_obj,
                                              ai_message_obj)])

\* The clock and the ids taken by WithExchange, and the pair on record;
\* result tells how the pair's request ended, once it has.
TakeExchange(p) ==
    /\ now' = now + 1
    /\ uuid' = uuid + 2
    /\ exchanges' = exchanges \cup
            {[patient_id |-> loc[p].patient_id, user |-> uuid, ai |-> uuid + 1,
              result |-> "pending"]}

\* store_conversation: conv_ref.get().
ChatConvGet(p, dbOk) ==
    LET patient_id == loc[p].patient_id IN
    /\ pc[p] = "conv_get"
    /\ lastOp' = "process_text_message"
    /\ UNCHANGED << users, conversations, chatNo, input, output >>
    /\ UNCHANGED quizVars
    /\ IF ~dbOk
       THEN /\ ChatReturn(p, Error("db error"),
                          << Call("conversations.get", FALSE) >>)
            /\ UNCHANGED << now, uuid, exchanges >>
       ELSE IF patient_id \notin DOMAIN conversations
       THEN /\ ChatGoto(p, "conv_set", loc[p],
                        << Call("conversations.get", TRUE) >>)
            /\ UNCHANGED << now, uuid, exchanges >>
       ELSE /\ ChatGoto(p, "conv_update",
                        WithExchange(p, Get(conversations[patient_id],
                                            "messages", << >>)),
                        << Call("conversations.get", TRUE) >>)
            /\ TakeExchange(p)

\* store_conversation: conv_ref.set({"messages": []}).
ChatConvSet(p, dbOk) ==
    LET patient_id == loc[p].patient_id IN
    /\ pc[p] = "conv_set"
    /\ lastOp' = "process_text_message"
    /\ UNCHANGED << users, chatNo, input, output >>
    /\ UNCHANGED quizVars
    /\ IF ~dbOk
       THEN /\ ChatReturn(p, Error("db error"),
                          << Call("conversations.set", FALSE) >>)
            /\ UNCHANGED << now, uuid, exchanges, conversations >>
       ELSE /\ conversations' =
                [q \in DOMAIN conversations \cup {patient_id} |->
                    IF q = patient_id THEN [messages |-> << >>]
                    ELSE conversations[q]]
            /\ ChatGoto(p, "conv_update", WithExchange(p, << >>),
                        << Call("conversations.set", TRUE) >>)
            /\ TakeExchange(p)

\* store_conversation: conv_ref.update({"messages": messages}), and the
\* result of process_text_message.
ChatConvUpdate(p, dbOk) ==
    LET l == loc[p]
        patient_id == l.patient_id
    IN
    /\ pc[p] = "conv_update"
    /\ lastOp' = "process_text_message"
    /\ UNCHANGED << users, now, uuid, chatNo, input, output >>
    /\ UNCHANGED quizVars
    /\ conversations' = [conversations EXCEPT ![patient_id] =
                            Stored(dbOk, @, l.messages)]
    /\ IF ~dbOk
       THEN /\ ChatReturn(p, Error("db error"),
                          << Call("conversations.update", FALSE) >>)
            /\ exchanges' =
                {IF e.user = l.user_msg_id THEN [e EXCEPT !.result = "error"]
                 ELSE e : e \in exchanges}
       ELSE /\ ChatReturn(p,
                    [response |-> l.ai_response,
                     audioResponse |-> "mp3",
                     messageIds |-> [userMessageId |-> l.user_msg_id,
                                     aiMessageId |-> l.ai_msg_id],
                     sentiment |-> Get(l.sentiment_data, "category", None),
                     memories |-> MemorySummaries(l.memories, 1)],
                    << Call("conversations.update", TRUE) >>)
            /\ exchanges' =
                {IF e.user = l.user_msg_id THEN [e EXCEPT !.result = "ok"]
                 ELSE e : e \in exchanges}

\* A step of a companion request of thread p.
Chat(p) ==
    \/ \E patient_id \in PatientIds, message \in Messages, dbOk \in BOOLEAN :
            ProcessTextMessage(p, patient_id, message, dbOk)
    \/ \E patient_id \in PatientIds, stt \in SpeechOutcomes :
            ProcessAudioMessage(p, patient_id, stt)
    \/ \E dbOk \in BOOLEAN : AudioGetPatient(p, dbOk)
    \/ \E fails \in {"none", "sentiment", "entities"}, answer \in ChatSentiments :
            ChatSentiment(p, fails, answer)
    \/ \E o \in RetrieveOutcomes : ChatRetrieve(p, o, Vec2(3, 4))
    \/ \E ok \in BOOLEAN : ChatGenerate(p, ok)
    \/ \E ok \in BOOLEAN : ChatSpeech(p, ok)
    \/ \E dbOk \in BOOLEAN : ChatConvGet(p, dbOk)
    \/ \E dbOk \in BOOLEAN : ChatConvSet(p, dbOk)
    \/ \E dbOk \in BOOLEAN : ChatConvUpdate(p, dbOk)

\* Companion requests run in parallel on the serving threads.
NextChat == \E p \in Procs : Chat(p)
SpecChat == Init /\ [][NextChat]_vars

\* ------------------------------------------------- the companion's properties
\* The messages of a patient's conversation log.
Log(patient_id) ==
    IF patient_id \in DOMAIN conversations
    THEN Get(conversations[patient_id], "messages", << >>) ELSE << >>

\* Whether the message with this id is in the patient's log.
InLog(patient_id, id) ==
    \E i \in 1..Len(Log(patient_id)) : Log(patient_id)[i].id = id

\* Whether a trace holds a call of this name with this outcome.
Made(tr, name, ok) == \E i \in 1..Len(tr) : tr[i].call = name /\ tr[i].ok = ok

\* How many calls of this name a trace holds.
Count(tr, name) == Cardinality({i \in 1..Len(tr) : tr[i].call = name})

\* Whether the request of a trace has returned, and what.
Ended(tr) == Len(tr) > 0 /\ tr[Len(tr)].call = "return"
ResultOf(tr) == tr[Len(tr)].result

PersistenceCalls ==
    {"conversations.get", "conversations.set", "conversations.update"}

\* The place of a call in process_text_message's order of steps.
Stage(call) ==
    IF call \in {"speech.recognize", "users.get"} THEN 0
    ELSE IF call \in {"language.analyze_sentiment", "language.analyze_entities"}
         THEN 1
    ELSE IF call \in {"embedding.get_embeddings", "firestore.find_nearest",
                      "chunks.stream"} THEN 2
    ELSE IF call = "gemini.generate_content" THEN 3
    ELSE IF call = "tts.synthesize_speech" THEN 4
    ELSE IF call \in PersistenceCalls THEN 5
    ELSE 6

\* C11: the calls of a request come in the order sentiment analysis, memory
\* retrieval, generation, persistence, return; the conversation document is
\* touched only after generation succeeded; and no message of an exchange
\* whose request returned an error is in the log.
C11_OrderedNoPartialPersistence ==
    /\ \A p \in Procs :
        LET tr == trace[p] IN
        /\ \A i \in 1..Len(tr) : \A j \in (i + 1)..Len(tr) :
                Stage(tr[i].call) <= Stage(tr[j].call)
        /\ \A j \in 1..Len(tr) :
                tr[j].call \in PersistenceCalls =>
                    \E i \in 1..(j - 1) :
                        tr[i] = Call("gemini.generate_content", TRUE)
        /\ (Ended(tr) /\ IsError(ResultOf(tr))) =>
                ~Made(tr, "conversations.update", TRUE)
    /\ \A e \in exchanges :
            e.result = "error" =>
                ~InLog(e.patient_id, e.user) /\ ~InLog(e.patient_id, e.ai)

C11_Witness ==
    \E p \in Procs :
        /\ Ended(trace[p])
        /\ Made(trace[p], "gemini.generate_content", TRUE)
        /\ Made(trace[p], "conversations.update", FALSE)
        /\ \E e \in exchanges : e.result = "error"

\* C12: in every state, the patient's message of an exchange is in the log
\* iff the reply of that exchange is.
C12_PairsTogether ==
    \A e \in exchanges :
        InLog(e.patient_id, e.user) <=> InLog(e.patient_id, e.ai)

C12_Witness ==
    /\ \E e \in exchanges : InLog(e.patient_id, e.user) /\ InLog(e.patient_id, e.ai)
    /\ \E e \in exchanges : ~InLog(e.patient_id, e.user) /\ e.result = "pending"
    /\ \E p \in Procs : pc[p] = "conv_update"

\* Whether xs is a prefix of ys.
IsPrefix(xs, ys) == Len(xs) <= Len(ys) /\ SubSeq(ys, 1, Len(xs)) = xs

\* C13: the log is append-only: every step leaves the messages of every
\* log in place, at the head of the log it produces.
C13_AppendOnly ==
    [][\A patient_id \in DOMAIN conversations :
         /\ patient_id \in DOMAIN conversations'
         /\ IsPrefix(conversations[patient_id].messages,
                     conversations'[patient_id].messages)]_vars

\* C14: when generation succeeded and a call of store_conversation failed,
\* the result still carries the generated response.
C14_ResponseReturnedUnpersisted ==
    \A p \in Procs :
        LET tr == trace[p] IN
        ( /\ Ended(tr)
          /\ Made(tr, "gemini.generate_content", TRUE)
          /\ \E c \in PersistenceCalls : Made(tr, c, FALSE) )
        => ( /\ "response" \in DOMAIN ResultOf(tr)
             /\ ResultOf(tr).response = "reply" )

\* Whether entry i of a trace is the fallback search embedding the summary
\* of a stale chunk.
IsReembedding(tr, i) ==
    /\ tr[i].call = "embedding.get_embeddings"
    /\ \E j \in 1..(i - 1) : tr[j].call = "chunks.stream"

\* A request calls the generative model at most once and writes its
\* exchange at most once; a failed call, other than those in exempt, is
\* the last call of the request, which returns one error result.
NoRetry(tr, exempt) ==
    /\ Count(tr, "gemini.generate_content") <= 1
    /\ Count(tr, "conversations.update") <= 1
    /\ Count(tr, "return") <= 1
    /\ \A i \in 1..Len(tr) :
            (tr[i].call # "return" /\ ~tr[i].ok /\ i \notin exempt) =>
                /\ Len(tr) = i + 1
                /\ tr[i + 1].call = "return"
                /\ IsError(tr[i + 1].result)

\* C15 as claimed: at most one generation and one write of the exchange per
\* request, and after any failed collaborator call no further call and a
\* single error result.
C15_NoCallAfterAnyFailure ==
    \A p \in Procs : NoRetry(trace[p], {})

\* C15 as amended: the same, except inside memory retrieval: an
\* unavailable vector search is followed by the fallback search, and a
\* failed embedding of a stale chunk's summary in the fallback only drops
\* the chunk.
C15_NoCallAfterFailure ==
    \A p \in Procs :
        NoRetry(trace[p],
                {i \in 1..Len(trace[p]) :
                    trace[p][i] = SearchUnavailable \/ IsReembedding(trace[p], i)})

C15_Witness ==
    \E p \in Procs :
        /\ Ended(trace[p])
        /\ Made(trace[p], "chunks.stream", TRUE)
        /\ Made(trace[p], "gemini.generate_content", FALSE)

\* C16: after an empty transcript the request returns the transcription
\* error at once: no call to the generative model, none to the conversation
\* document, no other call.
C16_EmptyTranscriptFails ==
    \A p \in Procs :
        LET tr == trace[p] IN
        (Len(tr) > 0 /\ tr[1] = SpeechCall(TRUE, "")) =>
            /\ tr = << SpeechCall(TRUE, ""), Returned(TranscriptionFailed) >>
            /\ Count(tr, "gemini.generate_content") = 0
            /\ \A c \in PersistenceCalls : Count(tr, c) = 0
            /\ pc[p] = "idle"

C16_Witness ==
    /\ response = TranscriptionFailed
    /\ \E p \in Procs : Made(trace[p], "speech.recognize", TRUE)
    /\ \E patient_id \in DOMAIN conversations : Len(Log(patient_id)) > 0

\* C17: after a non-empty transcript the request goes through
\* process_text_message with the transcript as the message, and returns its
\* result with the transcript added: a successful one after one generation
\* and the write of the exchange, whose patient message is the transcript.
C17_AudioDelegates ==
    \A p \in Procs :
        LET tr == trace[p] IN
        (Len(tr) > 0 /\ tr[1].call = "speech.recognize" /\ tr[1].ok
            /\ tr[1].transcript # "") =>
            /\ Len(tr) > 1 => tr[2].call = "users.get"
            /\ pc[p] # "idle" => loc[p].message = tr[1].transcript
            /\ pc[p] = "conv_update" =>
                    LET ms == loc[p].messages IN
                    /\ ms[Len(ms) - 1].content = tr[1].transcript
                    /\ ms[Len(ms) - 1].sender = "patient"
                    /\ ms[Len(ms)].content = loc[p].ai_response
            /\ Ended(tr) =>
                /\ "message" \in DOMAIN ResultOf(tr)
                /\ ResultOf(tr).message = tr[1].transcript
                /\ ~IsError(ResultOf(tr)) =>
                    /\ DOMAIN ResultOf(tr) =
                         {"response", "audioResponse", "messageIds",
                          "sentiment", "memories", "message"}
                    /\ Count(tr, "gemini.generate_content") = 1
                    /\ Made(tr, "conversations.update", TRUE)
                    /\ \E e \in exchanges :
                          /\ e.user = ResultOf(tr).messageIds.userMessageId
                          /\ e.ai = ResultOf(tr).messageIds.aiMessageId
                          /\ e.result = "ok"

C17_Witness ==
    \E p \in Procs :
        /\ Ended(trace[p])
        /\ Made(trace[p], "speech.recognize", TRUE)
        /\ ~IsError(ResultOf(trace[p]))
        /\ ResultOf(trace[p]).message = "hello"

\* C21: whenever the vector search of the store does not answer (it is
\* missing from the installed client, or the call raises for any other
\* reason), retrieve_memories goes on to the fallback search over the
\* patient's chunks, and the request does not end in an error right after
\* the failed search.
C21_SearchFailureFallsBack ==
    \A p \in Procs : \A i \in 1..Len(trace[p]) :
        (trace[p][i].call = "firestore.find_nearest" /\ ~trace[p][i].ok) =>
            /\ i < Len(trace[p])
            /\ trace[p][i + 1].call = "chunks.stream"

\* ------------------------------------------- the memory score of the profile
\* Sessions the patient completed before the behaviour starts, at most.
MaxPrior == 5

\* record_quiz_answer requests that pass their checks, in the behaviours
\* that start from such a store.
MaxProfileCalls == 2

\* The scores of the sessions completed before: of three questions, none
\* or two answered rightly.
PriorScores == {0, 66}

\* The text the session to answer was generated from.
RespPair == QuestionLines("q1", "A") \o QuestionLines("q2", "B")

\* The i-th session patient p1 completed: generated from RespThree at time
\* 10 i, answered at 10 i + 1, 10 i + 2 and 10 i + 3 (the first two rightly
\* when the score is not 0), completed at 10 i + 4. Its ids are the four
\* uuid4 values from 4 i - 3 on.
PriorSession(i, score) ==
    LET parsed == ParseQuizResponse(RespThree, 4 * i - 3)
        questions == parsed.questions
        selected == IF score > 0 THEN << "A", "B", "A" >> ELSE << "B", "A", "A" >>
        answers ==
            [n \in 1..3 |->
                AnswerRecord(questions[n].id, selected[n],
                             Get(questions[n], "correctAnswer", None),
                             10 * i + n)]
    IN Update(NewQuizSession(parsed.uuid, "p1", "mixed", 10 * i, questions, "Ada"),
              [answers |-> answers, status |-> "completed",
               completedAt |-> 10 * i + 4,
               score |-> Score(CorrectCount(answers, 1), Len(questions))])

\* gameSessions after k completed sessions with these scores and one more
\* session generated, not answered yet.
PriorStore(scores) ==
    LET k == Len(scores)
        parsed == ParseQuizResponse(RespPair, 4 * k + 1)
        active == NewQuizSession(parsed.uuid, "p1", "mixed", 10 * (k + 1),
                                 parsed.questions, "Ada")
    IN [q \in {4 * i : i \in 1..k} \cup {parsed.uuid} |->
            IF q = parsed.uuid THEN active
            ELSE PriorSession(q \div 4, scores[q \div 4])]

\* The store when patient p1 has completed up to MaxPrior sessions and has
\* one session to answer. db/init_schema.py and routes/auth.py create the
\* profile with memoryScore 0; the score the earlier completions left is
\* written over by the next one.
InitProfile ==
    /\ \E k \in 0..MaxPrior : \E scores \in [1..k -> PriorScores] :
            /\ gameSessions = PriorStore(scores)
            /\ uuid = 4 * k + 4
            /\ now = 10 * (k + 1) + 1
    /\ users = InitUsers
    /\ pc = [p \in Procs |-> "idle"]
    /\ loc = [p \in Procs |-> EmptyDict]
    /\ response = NoResult
    /\ lastOp = "none"
    /\ callNo = 0
    /\ acked = {}
    /\ completions = EmptyDict
    /\ conversations = EmptyDict
    /\ trace = [p \in Procs |-> << >>]
    /\ exchanges = {}
    /\ chatNo = 0
    /\ input = EmptyDict
    /\ output = NoResult

\* The requests that answer the session, one after the other.
NextProfile == RecordAnswer("t1", MaxProfileCalls)

SpecProfile == InitProfile /\ [][NextProfile]_vars

\* The patient's completed sessions that fewer than RecentLimit of the
\* patient's completed sessions are later than.
MostRecent(sessions, patient_id) ==
    LET done == {q \in DOMAIN sessions :
                    /\ sessions[q].patientId = patient_id
                    /\ Get(sessions[q], "status", None) = "completed"}
    IN {q \in done :
            Cardinality({r \in done :
                sessions[r].completedAt > sessions[q].completedAt}) < RecentLimit}

\* The sum of the scores of a set of sessions.
RECURSIVE ScoreSum(_, _)
ScoreSum(sessions, ids) ==
    IF ids = {} THEN 0
    ELSE LET q == CHOOSE x \in ids : TRUE
         IN sessions[q].score + ScoreSum(sessions, ids \ {q})

\* The whole part of the mean score of the patient's most recent sessions.
MeanRecent(sessions, patient_id) ==
    LET ids == MostRecent(sessions, patient_id)
    IN IF ids = {} THEN 0 ELSE ScoreSum(sessions, ids) \div Cardinality(ids)

\* C23: the record_quiz_answer call that completes a session, and returns
\* its grading, leaves in the patient's memoryScore the whole part of the
\* mean score of the patient's at most RecentLimit most recently completed
\* sessions, the one just completed among them; no other step of a
\* record_quiz_answer call changes a profile.
C23_MemoryScoreIsRecentMean ==
    [][lastOp' = "record_quiz_answer" =>
        IF IsGrading(response') /\ response'.allQuestionsAnswered
        THEN LET patient_id == loc["t1"].patient_id IN
             /\ users'[patient_id].memoryScore =
                    MeanRecent(gameSessions', patient_id)
             /\ loc["t1"].quiz_id \in MostRecent(gameSessions', patient_id)
             /\ \A u \in DOMAIN users \ {patient_id} : users'[u] = users[u]
        ELSE users' = users]_vars

\* A completion that found more than RecentLimit completed sessions, whose
\* mean over the most recent ones is not a whole number and differs from
\* the mean over all of them.
C23_Witness ==
    /\ lastOp = "record_quiz_answer"
    /\ IsGrading(response) /\ response.allQuestionsAnswered
    /\ Cardinality(CompletedOf(gameSessions, "p1")) > RecentLimit
    /\ LET ids == MostRecent(gameSessions, "p1") IN
        /\ ScoreSum(gameSessions, ids) % Cardinality(ids) # 0
        /\ users["p1"].memoryScore # 0
        /\ users["p1"].memoryScore #
                ScoreSum(gameSessions, CompletedOf(gameSessions, "p1"))
                    \div Cardinality(CompletedOf(gameSessions, "p1"))

\* C24: when the recent-quizzes query or the write of memoryScore fails in
\* the call that completed a session, the call writes nothing more to the
\* session: it stays completed, with the answer of the call, completedAt
\* and the score.
C24_ProfileFailureKeepsCompletion ==
    [][(pc["t1"] \in {"query_recent", "write_profile"} /\ IsError(response')) =>
        LET l == loc["t1"]
            session == gameSessions'[l.quiz_id]
        IN /\ gameSessions' = gameSessions
           /\ session.status = "completed"
           /\ session.answers = l.answers
           /\ session.score = l.score
           /\ "completedAt" \in DOMAIN session]_vars

\* A call that completed a session and returned an error, the profile not
\* brought up to date.
C24_Witness ==
    /\ lastOp = "record_quiz_answer"
    /\ IsError(response)
    /\ pc["t1"] = "idle"
    /\ \E q \in DOMAIN gameSessions :
        /\ Completed(q)
        /\ gameSessions[q].completedAt = now - 1
        /\ Len(Answers(q)) = Len(Questions(q))
        /\ users["p1"].memoryScore # MeanRecent(gameSessions, "p1")

\* C29: when a record_quiz_answer call returns an error result, the session
\* document is as the call found it: answers without the answer of the
\* call (l.answers is the list the call read, with its answer appended),
\* status active, neither completedAt nor score; the same answer can be
\* submitted again.
C29_ErrorLeavesSessionUnchanged ==
    [][(lastOp' = "record_quiz_answer" /\ IsError(response')) =>
        IF pc["t1"] = "idle" THEN gameSessions' = gameSessions
        ELSE LET l == loc["t1"]
                 session == gameSessions'[l.quiz_id]
             IN /\ Get(session, "answers", << >>) =
                        SubSeq(l.answers, 1, Len(l.answers) - 1)
                /\ session.status = "active"
                /\ DOMAIN session \cap {"completedAt", "score"} = {}]_vars

\* --------------------------------------------- sessions answered to their end
\* record_quiz_answer when every call to the store succeeds.
RecordAnswerNoFailure(p, calls) ==
    \/ \E quiz_id \in DOMAIN gameSessions \cup {BogusId} :
       \E question_id \in QuestionIds(quiz_id) :
       \E selected_option \in SelectedOptions :
            RecordRead(p, quiz_id, question_id, selected_option, TRUE, calls)
    \/ RecordWriteAnswers(p, TRUE)
    \/ RecordWriteStatus(p, TRUE)
    \/ RecordQueryRecent(p, TRUE)
    \/ RecordWriteProfile(p, TRUE)

\* One serving thread, and no failure of the store while an answer is
\* recorded.
NextNoFailure ==
    \/ pc["t1"] = "idle" /\ Generate(SeqResponses)
    \/ RecordAnswerNoFailure("t1", MaxSeqCalls)

SpecNoFailure == Init /\ [][NextNoFailure]_vars

\* C30: a session generate_quiz stored is completed, with its score, once
\* one answer for each of its n >= 0 questions has been recorded, the calls
\* made one after the other and none failing: no session is active with
\* nothing left to answer.
C30_AnsweredSessionsAreCompleted ==
    \A q \in DOMAIN gameSessions :
        (pc["t1"] = "idle"
            /\ \A i \in 1..Len(Questions(q)) : HasAnswer(q, Questions(q)[i].id))
        => (Completed(q) /\ "score" \in DOMAIN gameSessions[q])

\* ------------------------------------------------------ _parse_quiz_response
\* Lines of a text the parser is applied to, at most.
MaxLines == 3

\* The lines a text is made of: question markers, a line starting with Q
\* without a colon, option lines, CORRECT lines with a letter of the
\* options and with another text, the other markers, an empty line, prose.
TextLines ==
    {Line("Q", TRUE, "q1"), Line("Q", TRUE, "q2"), Line("Q", FALSE, "Quite"),
     Line("A.", FALSE, "a"), Line("B.", FALSE, "b"),
     Line("CORRECT:", TRUE, "A"), Line("CORRECT:", TRUE, "E"),
     Line("EXPLANATION:", TRUE, "because"), Line("CATEGORY:", TRUE, "Personal"),
     Line("BLANK", FALSE, ""), Line("", FALSE, "Sure!")}

\* The texts of at most n lines.
RECURSIVE Texts(_)
Texts(n) ==
    IF n = 0 THEN {<< >>}
    ELSE LET shorter == Texts(n - 1) IN
         shorter \cup {Append(t, l) : t \in shorter, l \in TextLines}

InitParse == InitStore /\ input \in {[lines |-> t] : t \in Texts(MaxLines)}

\* _parse_quiz_response applied to the text drawn.
ParseStep ==
    /\ output = NoResult
    /\ output' = [questions |-> ParseQuizResponse(input.lines, uuid).questions]
    /\ uuid' = ParseQuizResponse(input.lines, uuid).uuid
    /\ UNCHANGED << gameSessions, users, now, pc, loc, response, lastOp,
                    callNo, acked, completions, conversations, trace,
                    exchanges, chatNo, input >>

\* The parser alone, and within generate_quiz when the generative model
\* returns the text drawn.
NextParse == ParseStep \/ Generate({input.lines})

SpecParse == InitParse /\ [][NextParse]_vars

\* C26: every question of every stored session has the four options A, B,
\* C, D, each once, and its correct answer, when it has one, is one of
\* these letters, whatever text the generative model returned.
C26_FourOptionsEach ==
    \A q \in DOMAIN gameSessions : \A i \in 1..Len(Questions(q)) :
        LET question == Questions(q)[i] IN
        /\ Len(question.options) = 4
        /\ {question.options[n].id : n \in 1..Len(question.options)} = ValidOptions
        /\ "correctAnswer" \in DOMAIN question =>
                question.correctAnswer \in ValidOptions

\* The question markers of the text drawn: the places of its lines that
\* start with Q and hold a colon.
Markers == {i \in 1..Len(input.lines) : input.lines[i].head = "Q" /\ input.lines[i].colon}
\* The place of the n-th marker, and of the last line before the next one.
Marker(n) == CHOOSE i \in Markers : Cardinality({j \in Markers : j <= i}) = n
LastLine(n) ==
    IF n < Cardinality(Markers) THEN Marker(n + 1) - 1 ELSE Len(input.lines)
\* The places of the lines with this head that follow the n-th marker.
Following(n, heads) ==
    {i \in (Marker(n) + 1)..LastLine(n) : input.lines[i].head \in heads}
\* The value the last of these lines gives to a field of the n-th question.
FieldValue(n, head) ==
    LET places == Following(n, {head})
    IN input.lines[CHOOSE i \in places : \A j \in places : j <= i].val
\* The i-th option line after the n-th marker.
OptionLine(n, i) ==
    LET places == Following(n, {"A.", "B.", "C.", "D."})
    IN input.lines[CHOOSE k \in places : Cardinality({j \in places : j <= k}) = i]

\* C28: the parser returns one question for each question marker, in the
\* order of the text, with the marker's text and an id no other question
\* has; the option, CORRECT, EXPLANATION and CATEGORY lines that follow a
\* marker, up to the next one, set the fields of its question and of no
\* other; a field no line sets is absent (no option line: no option); the
\* lines before the first marker set nothing; the parser returns for
\* every text.
C28_ParsedQuestions ==
    output # NoResult =>
        LET questions == output.questions IN
        /\ Len(questions) = Cardinality(Markers)
        /\ \A n \in 1..Len(questions) :
            LET question == questions[n] IN
            /\ question.text = input.lines[Marker(n)].val
            /\ \A m \in 1..Len(questions) : questions[m].id = question.id => m = n
            /\ \A g \in DOMAIN gameSessions :
                /\ g # question.id
                /\ \A i \in 1..Len(Questions(g)) : Questions(g)[i].id # question.id
            /\ Len(question.options) =
                    Cardinality(Following(n, {"A.", "B.", "C.", "D."}))
            /\ \A i \in 1..Len(question.options) :
                    /\ question.options[i].id = OptionLetter(OptionLine(n, i).head)
                    /\ question.options[i].text = OptionLine(n, i).val
            /\ DOMAIN question =
                    {"id", "text", "options"}
                    \cup (IF Following(n, {"CORRECT:"}) = {} THEN {}
                          ELSE {"correctAnswer"})
                    \cup (IF Following(n, {"EXPLANATION:"}) = {} THEN {}
                          ELSE {"explanation"})
                    \cup (IF Following(n, {"CATEGORY:"}) = {} THEN {}
                          ELSE {"category"})
            /\ "correctAnswer" \in DOMAIN question =>
                    question.correctAnswer = FieldValue(n, "CORRECT:")
            /\ "explanation" \in DOMAIN question =>
                    question.explanation = FieldValue(n, "EXPLANATION:")
            /\ "category" \in DOMAIN question =>
                    question.category = Lower(FieldValue(n, "CATEGORY:"))

\* A CORRECT line before the only marker and an option line after it: one
\* question, with one option and no correct answer.
C28_Witness ==
    /\ output # NoResult
    /\ Len(input.lines) = 3
    /\ input.lines[1].head = "CORRECT:"
    /\ Markers = {2}
    /\ input.lines[3].head = "A."
    /\ Len(output.questions) = 1
    /\ "correctAnswer" \notin DOMAIN output.questions[1]
    /\ Len(output.questions[1].options) = 1

\* ------------------------------------------------------------- the routes
\* datetime.isoformat(): the text of a time.
IsoFormat(t) == [isoformat |-> t]

\* get_quiz_session's clean-up of a session document for JSON: createdAt,
\* completedAt and the answers' timestamps as text.
Serializable(quiz_data) ==
    LET stamped ==
            [k \in DOMAIN quiz_data |->
                IF k \in {"createdAt", "completedAt"} THEN IsoFormat(quiz_data[k])
                ELSE quiz_data[k]]
    IN IF "answers" \in DOMAIN quiz_data
       THEN Update(stamped, [answers |->
                [i \in 1..Len(quiz_data.answers) |->
                    Update(quiz_data.answers[i],
                           [timestamp |-> IsoFormat(quiz_data.answers[i].timestamp)])]])
       ELSE stamped

\* get_quiz_session(quiz_id): one read of the session.
GetQuizSession(p, quiz_id, dbOk) ==
    /\ pc[p] = "idle"
    /\ lastOp' = "get_quiz_session"
    /\ response' =
            IF ~dbOk THEN Error("db error")
            ELSE IF quiz_id \notin DOMAIN gameSessions THEN QuizNotFound
            ELSE Serializable(gameSessions[quiz_id])
    /\ UNCHANGED << gameSessions, users, now, uuid, pc, loc, callNo, acked,
                    completions >>
    /\ UNCHANGED chatVars

\* The status a route answers with when the engine's result holds an error.
ErrorStatus(op) ==
    CASE op = "generate_quiz" -> 500
      [] op = "record_quiz_answer" -> 400
      [] op = "get_quiz_session" -> 404
      [] op \in {"process_text_message", "process_audio_message"} -> 500

\* What a route returns for the result of the engine's operation op.
HttpResponse(op, result) ==
    IF IsError(result)
    THEN [status |-> ErrorStatus(op), body |-> [error |-> result.error]]
    ELSE [status |-> 200, body |-> result]

\* The quiz routes served by one thread.
NextHttp ==
    \/ NextSeq
    \/ \E quiz_id \in DOMAIN gameSessions \cup {BogusId}, dbOk \in BOOLEAN :
            GetQuizSession("t1", quiz_id, dbOk)

SpecHttp == Init /\ [][NextHttp]_vars

\* C27: a request that fails because the patient, the quiz session or the
\* question does not exist is answered with status 404 and a JSON body
\* holding the error, on the message, quiz-generate, quiz-answer and
\* quiz-get routes alike.
C27_NotFoundIs404 ==
    (lastOp # "none" /\ response \in {PatientNotFound, QuizNotFound, QuestionNotFound})
        => /\ HttpResponse(lastOp, response).status = 404
           /\ HttpResponse(lastOp, response).body = [error |-> response.error]

\* ------------------------------------------------- generate_quiz, the seeds
\* Messages of a conversation log, and memories of a patient, at most.
MaxMessages == 2
MaxMemories == 2

\* generate_quiz: the memories sampled at most, the days and the messages
\* retrieve_conversations is asked for, the messages of the patient kept.
SampleLimit == 10
DaysLimit == 30
CountLimit == 50
SeedLimit == 20

\* The four quiz types routes/quizzes.py lets through.
SeedQuizTypes == {"memory", "conversation", "mixed", "general"}

\* Messages of a log, with their time in days from now: of the patient 5
\* days ago and 40 days ago, of the companion 4 days ago.
LogMessages ==
    {[sender |-> "patient", content |-> "recent", timestamp |-> -5],
     [sender |-> "patient", content |-> "old", timestamp |-> -40],
     [sender |-> "ai", content |-> "reply", timestamp |-> -4]}

\* The conversations document of the patient: none, or one with messages.
RECURSIVE Logs(_)
Logs(n) ==
    IF n = 0 THEN {<< >>}
    ELSE LET shorter == Logs(n - 1) IN
         shorter \cup {Append(ms, m) : ms \in shorter, m \in LogMessages}

ConversationDocs == {NoDict} \cup {[messages |-> ms] : ms \in Logs(MaxMessages)}

\* The patientMemories document of the patient: none, or one with memories.
StoredMemory(n) == [title |-> << "title", n >>, content |-> << "content", n >>]
MemoryDocs ==
    {NoDict} \cup {[memories |-> [i \in 1..n |-> StoredMemory(i)]] : n \in 0..MaxMemories}

\* filtered_messages.sort(key=timestamp, reverse=True) of the first n
\* messages: a stable sort, newest first.
RECURSIVE SortNewestFirst(_, _)
SortNewestFirst(messages, n) ==
    IF n = 0 THEN << >>
    ELSE LET sorted == SortNewestFirst(messages, n - 1)
             x == messages[n]
             before == Cardinality({j \in 1..Len(sorted) :
                                        sorted[j].timestamp >= x.timestamp})
         IN SubSeq(sorted, 1, before) \o << x >>
                \o SubSeq(sorted, before + 1, Len(sorted))

\* retrieve_conversations where the cutoff date is computed and applied.
RetrieveConversationsFiltering(conv_doc, days_limit, count_limit, time) ==
    IF conv_doc = NoDict THEN << >>
    ELSE LET all_messages == Get(conv_doc, "messages", << >>)
             filtered_messages ==
                IF days_limit > 0
                THEN SelectSeq(all_messages,
                               LAMBDA msg : msg.timestamp >= time - days_limit)
                ELSE all_messages
         IN Take(SortNewestFirst(filtered_messages, Len(filtered_messages)),
                 count_limit)

\* retrieve_conversations(patient_id, days_limit, count_limit). The module
\* imports the class (from datetime import datetime), so that for
\* days_limit > 0 datetime.timedelta raises AttributeError; the except of
\* the function returns [].
RetrieveConversations(conv_doc, days_limit, count_limit, time) ==
    IF conv_doc = NoDict THEN << >>
    ELSE LET all_messages == Get(conv_doc, "messages", << >>)
         IN IF days_limit > 0 THEN << >>
            ELSE Take(SortNewestFirst(all_messages, Len(all_messages)),
                      count_limit)

\* random.sample(all_memories, k): k of the memories, in some order.
Samples(all_memories, k) ==
    {[i \in 1..k |-> all_memories[f[i]]] :
        f \in {g \in [1..k -> 1..Len(all_memories)] :
                    \A i, j \in 1..k : g[i] = g[j] => i = j}}

\* The seed generate_quiz makes of a memory, and of a message.
MemorySeed(memory) ==
    [title |-> Get(memory, "title", ""), content |-> Get(memory, "content", ""),
     type |-> "memory", people |-> << >>, places |-> << >>]
ConversationSeed(msg) ==
    [content |-> Get(msg, "content", ""), timestamp |-> Get(msg, "timestamp", ""),
     topics |-> Get(msg, "topics", << >>)]

\* The memory seeds generate_quiz can collect.
MemorySeeds(quiz_type, memory_docs) ==
    IF quiz_type \in {"memory", "mixed"} /\ Truthy(memory_docs)
            /\ "memories" \in DOMAIN memory_docs
    THEN LET all_memories == memory_docs.memories
             sample_size == IF SampleLimit < Len(all_memories)
                            THEN SampleLimit ELSE Len(all_memories)
         IN {[i \in 1..sample_size |-> MemorySeed(memory_samples[i])] :
                memory_samples \in Samples(all_memories, sample_size)}
    ELSE {<< >>}

\* The conversation seeds generate_quiz collects.
ConversationSeeds(quiz_type, conv_doc, time) ==
    IF quiz_type \in {"conversation", "mixed"}
    THEN LET recent_messages ==
                RetrieveConversations(conv_doc, DaysLimit, CountLimit, time)
             user_messages ==
                SelectSeq(recent_messages,
                          LAMBDA msg : Get(msg, "sender", "") = "patient")
             kept == Take(user_messages, SeedLimit)
         IN [i \in 1..Len(kept) |-> ConversationSeed(kept[i])]
    ELSE << >>

InitSeed ==
    /\ InitStore
    /\ input \in {[quiz_type |-> t, conversations |-> c, patientMemories |-> m] :
                    t \in SeedQuizTypes, c \in ConversationDocs, m \in MemoryDocs}

\* generate_quiz from the profile read to the prompt: the seeds collected.
CollectSeeds ==
    /\ output = NoResult
    /\ \E memories \in MemorySeeds(input.quiz_type, input.patientMemories) :
            output' = [memories |-> memories,
                       conversations |->
                            ConversationSeeds(input.quiz_type,
                                              input.conversations, now)]
    /\ UNCHANGED << gameSessions, users, now, uuid, pc, loc, response, lastOp,
                    callNo, acked, completions, conversations, trace,
                    exchanges, chatNo, input >>

NextSeed == CollectSeeds
SpecSeed == InitSeed /\ [][NextSeed]_vars

\* The messages of the patient in the log drawn that are not older than
\* DaysLimit days.
PatientMessagesInWindow ==
    IF input.conversations = NoDict THEN {}
    ELSE {m \in {input.conversations.messages[i] :
                    i \in 1..Len(input.conversations.messages)} :
            m.sender = "patient" /\ m.timestamp >= now - DaysLimit}

\* C25: the seeds follow the quiz type. For conversation and mixed the
\* conversation seeds are messages of the patient from the last DaysLimit
\* days, at most SeedLimit, newest first, and there is one when the log
\* holds such a message; for memory and mixed the memory seeds are at most
\* SampleLimit of the stored memories; no conversation seed for memory and
\* general, no memory seed for conversation and general.
C25_SeedsByQuizType ==
    output # NoResult =>
        /\ Len(output.conversations) <= SeedLimit
        /\ \A i \in 1..Len(output.conversations) :
                \E m \in PatientMessagesInWindow :
                    output.conversations[i] = ConversationSeed(m)
        /\ \A i \in 1..(Len(output.conversations) - 1) :
                output.conversations[i].timestamp
                    >= output.conversations[i + 1].timestamp
        /\ (input.quiz_type \in {"conversation", "mixed"}
                /\ PatientMessagesInWindow # {})
                    => Len(output.conversations) > 0
        /\ input.quiz_type \in {"memory", "general"} => output.conversations = << >>
        /\ Len(output.memories) <= SampleLimit
        /\ \A i \in 1..Len(output.memories) :
                \E j \in 1..Len(input.patientMemories.memories) :
                    output.memories[i] = MemorySeed(input.patientMemories.memories[j])
        /\ input.quiz_type \in {"conversation", "general"} => output.memories = << >>

====
